---- MODULE Spec2Model ----
(***************************************************************************)
(* Smart-Committee: rotating-savings committees.  The model follows the    *)
(* Django models (committee/models.py, accounts/models.py), the model      *)
(* forms (committee/forms.py), the request handlers (committee/views.py)   *)
(* and the signup adapter (accounts/adapters.py).  One action is one       *)
(* request handled to its end; `result` is what the handler reported.      *)
(* For requests that overlap, a handler is split at the point where its    *)
(* checks are done and its write is still to come; `inflight` holds the    *)
(* requests that stand at that point.                                      *)
(*                                                                         *)
(* Time is counted in days.  A date is a day number; months have           *)
(* DaysPerMonth days, so that day d is the (d % DaysPerMonth + 1)-th of    *)
(* month d \div DaysPerMonth.  Nullable columns hold None or Some(v).      *)
(* Columns that no handler reads (name, description, created_at,           *)
(* updated_at, joined_at, received_in_cash) are left out.                  *)
(***************************************************************************)
EXTENDS Integers, Sequences, FiniteSets, TLC

VARIABLES now, users, is_organizer, committees, memberships, contributions,
          payouts, invitations, next_pk, result, inflight

vars == <<now, users, is_organizer, committees, memberships, contributions,
          payouts, invitations, next_pk, result, inflight>>

(* ------------------------------ bounds -------------------------------- *)
MaxDay == 11
MaxCommittees == 1
MaxMemberships == 2
MaxContributions == 2
MaxPayouts == 2
MaxInvitations == 2
MaxTokens == 2

(* --------------------------- program constants ------------------------- *)
DueDay == 5
InviteDays == 7

DaysPerMonth == DueDay + 1

(* ------------------------------ values --------------------------------- *)
\* What a handler reports: the handler, the row (or, for a create, the parent
\* row) the request names, and the outcome.
Report(op, pk, out) == [op |-> op, pk |-> pk, out |-> out]

None == <<>>
Some(v) == <<v>>
Val(x) == x[1]

Users == {"u1", "u2", "u3"}
Anonymous == "anon"
NoUser == "none"

Email(u) ==
    CASE u = "u1" -> [n |-> "org", up |-> FALSE]
      [] u = "u2" -> [n |-> "bob", up |-> TRUE]
      [] OTHER    -> [n |-> "carol", up |-> FALSE]

\* Mutant of the case folding: the address as it is written.
Lower_AsWritten(e) == e

Lower(e) == [e EXCEPT !.up = FALSE]

\* The order in which a posted list names the users.
UserIdx(u) == CASE u = "u1" -> 1 [] u = "u2" -> 2 [] OTHER -> 3

AmountInputs == {0, 1}
DurationInputs == {0 - 1, 0, 1}

MonthOf(d) == d \div DaysPerMonth
MonthStart(d) == MonthOf(d) * DaysPerMonth
DateOf(month, day) == month * DaysPerMonth + (day - 1)
AddMonths(d, n) == d + n * DaysPerMonth

\* The day the behaviours start: the due day of the second month.
LedgerStart == DateOf(1, DueDay)

\* A committee starts that day or a month before it.
StartInputs == {LedgerStart - DaysPerMonth, LedgerStart}

(* ------------------------------ lookups -------------------------------- *)
CommitteeOf(pk) == CHOOSE c \in committees : c.pk = pk
MembershipOf(pk) == CHOOSE m \in memberships : m.pk = pk
ContributionOf(pk) == CHOOSE c \in contributions : c.pk = pk
PayoutOf(pk) == CHOOSE p \in payouts : p.pk = pk
InvitationOf(pk) == CHOOSE i \in invitations : i.pk = pk

CommitteePks == {c.pk : c \in committees}
MembershipPks == {m.pk : m \in memberships}
ContributionPks == {c.pk : c \in contributions}
PayoutPks == {p.pk : p \in payouts}
InvitationPks == {i.pk : i \in invitations}

OrganizerOfMembership(m) == CommitteeOf(m.committee).organizer

(* ------------------------ Committee (models.py) ------------------------ *)
is_completed(c) == c.end_date /= None /\ Val(c.end_date) < now

\* Mutants of Committee.save: one that never completes, one that derives the
\* status from the end date alone.
CommitteeSave_NoCompletion(c) ==
    [c EXCEPT !.end_date = IF c.end_date = None
                           THEN Some(AddMonths(c.start_date, c.duration_months))
                           ELSE c.end_date]

CommitteeSave_Rederive(c) ==
    LET e == IF c.end_date = None
             THEN Some(AddMonths(c.start_date, c.duration_months))
             ELSE c.end_date
    IN [c EXCEPT !.end_date = e,
                 !.status = IF Val(e) < now THEN "COMPLETED"
                            ELSE IF c.status = "COMPLETED" THEN "ACTIVE" ELSE c.status]

CommitteeSave(c) ==
    LET e == IF c.end_date = None
             THEN Some(AddMonths(c.start_date, c.duration_months))
             ELSE c.end_date
        s == IF c.status = "ACTIVE" /\ Val(e) < now THEN "COMPLETED" ELSE c.status
    IN [c EXCEPT !.end_date = e, !.status = s]

\* deactivate() and reactivate(): <<the committee afterwards, the value returned>>
deactivate(c) ==
    IF c.status = "ACTIVE" /\ ~is_completed(c)
    THEN <<CommitteeSave([c EXCEPT !.status = "DEACTIVATED"]), TRUE>>
    ELSE <<c, FALSE>>

\* Mutant of reactivate: without the test of the end date.
reactivate_IgnoresEndDate(c) ==
    IF c.status = "DEACTIVATED"
    THEN <<CommitteeSave([c EXCEPT !.status = "ACTIVE"]), TRUE>>
    ELSE <<c, FALSE>>

reactivate(c) ==
    IF c.status = "DEACTIVATED" /\ ~is_completed(c)
    THEN <<CommitteeSave([c EXCEPT !.status = "ACTIVE"]), TRUE>>
    ELSE <<c, FALSE>>

\* CommitteeForm.is_valid(): the field validators and CommitteeForm.clean.
\* organizer is NoUser for a committee that is being created.
\* flag is request.user.is_organizer as the handler left it.
CommitteeFormValid(u, flag, organizer, duration) ==
    /\ duration >= 0
    /\ flag
    /\ organizer /= NoUser => organizer = u

(* --------------------------- cascades ---------------------------------- *)
ContributionsOfMemberships(ms) == {c \in contributions : c.membership \in ms}
PayoutsOfMemberships(ms) == {p \in payouts : p.membership \in ms}

\* Mutant of the cascade: the rows owned by the memberships are kept.
DeleteMemberships_RowsOnly(ms) ==
    /\ memberships' = {m \in memberships : m.pk \notin ms}
    /\ UNCHANGED <<contributions, payouts>>

DeleteMemberships(ms) ==
    /\ memberships' = {m \in memberships : m.pk \notin ms}
    /\ contributions' = contributions \ ContributionsOfMemberships(ms)
    /\ payouts' = payouts \ PayoutsOfMemberships(ms)

(* ----------------------- committee handlers ---------------------------- *)
committee_create(u, amount, duration, start) ==
    /\ u \in users
    /\ next_pk.committee <= MaxCommittees
    /\ is_organizer' = [is_organizer EXCEPT ![u] = TRUE]
    /\ IF CommitteeFormValid(u, TRUE, NoUser, duration)
       THEN /\ committees' = committees \cup
                   {CommitteeSave([pk |-> next_pk.committee, organizer |-> u,
                                   status |-> "ACTIVE", monthly_amount |-> amount,
                                   duration_months |-> duration, start_date |-> start,
                                   end_date |-> None])}
            /\ next_pk' = [next_pk EXCEPT !.committee = @ + 1]
            /\ result' = Report("committee_create", next_pk.committee, "ok")
       ELSE /\ UNCHANGED <<committees, next_pk>>
            /\ result' = Report("committee_create", next_pk.committee, "invalid")
    /\ UNCHANGED <<now, users, memberships, contributions, payouts, invitations>>
    /\ UNCHANGED inflight

\* Mutant of committee_update: the end date is never recalculated.
committee_update_KeepsEndDate(u, pk, amount, duration, start) ==
    /\ u \in users
    /\ pk \in CommitteePks
    /\ LET c == CommitteeOf(pk)
           f == [c EXCEPT !.monthly_amount = amount, !.duration_months = duration,
                          !.start_date = start]
       IN IF c.organizer /= u
          THEN /\ result' = Report("committee_update", pk, "denied")
               /\ UNCHANGED committees
          ELSE IF CommitteeFormValid(u, is_organizer[u], c.organizer, duration)
          THEN /\ committees' = (committees \ {c}) \cup {CommitteeSave(f)}
               /\ result' = Report("committee_update", pk, "ok")
          ELSE /\ result' = Report("committee_update", pk, "invalid")
               /\ UNCHANGED committees
    /\ UNCHANGED <<now, users, is_organizer, memberships, contributions, payouts,
                   invitations, next_pk>>
    /\ UNCHANGED inflight

committee_update(u, pk, amount, duration, start) ==
    /\ u \in users
    /\ pk \in CommitteePks
    /\ LET c == CommitteeOf(pk)
           changed == start /= c.start_date \/ duration /= c.duration_months
           f == [c EXCEPT !.monthly_amount = amount, !.duration_months = duration,
                          !.start_date = start]
           e == IF changed THEN Some(AddMonths(start, duration)) ELSE f.end_date
           s == IF changed /\ f.status = "ACTIVE" /\ Val(e) < now
                THEN "COMPLETED" ELSE f.status
       IN IF c.organizer /= u
          THEN /\ result' = Report("committee_update", pk, "denied")
               /\ UNCHANGED committees
          ELSE IF CommitteeFormValid(u, is_organizer[u], c.organizer, duration)
          THEN /\ committees' = (committees \ {c}) \cup
                      {CommitteeSave([f EXCEPT !.end_date = e, !.status = s])}
               /\ result' = Report("committee_update", pk, "ok")
          ELSE /\ result' = Report("committee_update", pk, "invalid")
               /\ UNCHANGED committees
    /\ UNCHANGED <<now, users, is_organizer, memberships, contributions, payouts,
                   invitations, next_pk>>
    /\ UNCHANGED inflight

committee_delete(u, pk) ==
    /\ u \in users
    /\ pk \in CommitteePks
    /\ LET c == CommitteeOf(pk)
       IN IF c.organizer /= u
          THEN /\ result' = Report("committee_delete", pk, "denied")
               /\ UNCHANGED <<committees, memberships, contributions, payouts, invitations>>
          ELSE /\ committees' = committees \ {c}
               /\ DeleteMemberships({m.pk : m \in {x \in memberships : x.committee = pk}})
               /\ invitations' = {i \in invitations : i.committee /= pk}
               /\ result' = Report("committee_delete", pk, "ok")
    /\ UNCHANGED <<now, users, is_organizer, next_pk>>
    /\ UNCHANGED inflight

toggle_committee_status(u, pk) ==
    /\ u \in users
    /\ pk \in CommitteePks
    /\ LET c == CommitteeOf(pk)
           saved == CommitteeSave(c)
           toggled == IF saved.status = "ACTIVE" THEN deactivate(saved) ELSE reactivate(saved)
       IN IF c.organizer /= u
          THEN /\ result' = Report("toggle_committee_status", pk, "denied")
               /\ UNCHANGED committees
          ELSE IF saved.status = "COMPLETED"
          THEN /\ committees' = (committees \ {c}) \cup {saved}
               /\ result' = Report("toggle_committee_status", pk, "completed")
          ELSE /\ committees' = (committees \ {c}) \cup {toggled[1]}
               /\ result' = Report("toggle_committee_status", pk, IF toggled[2] THEN "ok" ELSE "refused")
    /\ UNCHANGED <<now, users, is_organizer, memberships, contributions, payouts,
                   invitations, next_pk>>
    /\ UNCHANGED inflight

switch_to_organizer(u) ==
    /\ u \in users
    /\ IF ~is_organizer[u]
       THEN /\ is_organizer' = [is_organizer EXCEPT ![u] = TRUE]
            /\ result' = Report("switch_to_organizer", 0, "ok")
       ELSE /\ UNCHANGED is_organizer
            /\ result' = Report("switch_to_organizer", 0, "already")
    /\ UNCHANGED <<now, users, committees, memberships, contributions, payouts,
                   invitations, next_pk>>
    /\ UNCHANGED inflight

\* Mutant of step_down_organizer: without the test of the user's committees.
step_down_organizer_NoCommitteeTest(u) ==
    /\ u \in users
    /\ IF ~is_organizer[u]
       THEN /\ UNCHANGED is_organizer
            /\ result' = Report("step_down_organizer", 0, "refused")
       ELSE /\ is_organizer' = [is_organizer EXCEPT ![u] = FALSE]
            /\ result' = Report("step_down_organizer", 0, "ok")
    /\ UNCHANGED <<now, users, committees, memberships, contributions, payouts,
                   invitations, next_pk>>
    /\ UNCHANGED inflight

step_down_organizer(u) ==
    /\ u \in users
    /\ IF ~is_organizer[u]
       THEN /\ UNCHANGED is_organizer
            /\ result' = Report("step_down_organizer", 0, "refused")
       ELSE IF Cardinality({c \in committees : c.organizer = u}) > 0
       THEN /\ UNCHANGED is_organizer
            /\ result' = Report("step_down_organizer", 0, "refused")
       ELSE /\ is_organizer' = [is_organizer EXCEPT ![u] = FALSE]
            /\ result' = Report("step_down_organizer", 0, "ok")
    /\ UNCHANGED <<now, users, committees, memberships, contributions, payouts,
                   invitations, next_pk>>
    /\ UNCHANGED inflight

\* A day passes.
Tick ==
    /\ now < MaxDay
    /\ now' = now + 1
    /\ result' = Report("tick", 0, "ok")
    /\ UNCHANGED <<users, is_organizer, committees, memberships, contributions,
                   payouts, invitations, next_pk>>
    /\ UNCHANGED inflight

(* ------------------------ Membership (models.py) ----------------------- *)
\* Mutant of Membership.save: an ACTIVE row keeps its left_at.
MembershipSave_KeepsLeftAt(m) ==
    IF m.status \in {"LEFT", "REMOVED"} /\ m.left_at = None
    THEN [m EXCEPT !.left_at = Some(now)]
    ELSE m

MembershipSave(m) ==
    IF m.status \in {"LEFT", "REMOVED"} /\ m.left_at = None
    THEN [m EXCEPT !.left_at = Some(now)]
    ELSE IF m.status = "ACTIVE" THEN [m EXCEPT !.left_at = None] ELSE m

\* MembershipForm.save on an existing row; the form's only field is status.
MembershipFormSave(m, status) ==
    LET f == [m EXCEPT !.status = status]
        g == IF status /= m.status /\ status \in {"LEFT", "REMOVED"}
             THEN [f EXCEPT !.left_at = Some(now)] ELSE f
    IN MembershipSave(g)

\* Mutant of the membership test of membership_create: only ACTIVE rows count.
MembershipExists_ActiveOnly(cpk, u) ==
    \E m \in memberships : m.committee = cpk /\ m.member = u /\ m.status = "ACTIVE"

\* Membership.objects.filter(committee=committee, member=user).exists()
MembershipExists(cpk, u) == \E m \in memberships : m.committee = cpk /\ m.member = u

\* The pk a row gets when the rows for the keys in s are inserted in key order.
Rank(s, k) == Cardinality({x \in s : x < k})

(* ------------------------ membership handlers -------------------------- *)
\* user_ids is the posted list; users that do not exist are skipped.
membership_create(u, cpk, user_ids) ==
    /\ u \in users
    /\ cpk \in CommitteePks
    /\ LET c == CommitteeOf(cpk)
           fresh == {x \in user_ids \cap users : ~MembershipExists(cpk, x)}
           order(x) == Cardinality({y \in fresh : UserIdx(y) < UserIdx(x)})
       IN IF c.organizer /= u
          THEN /\ result' = Report("membership_create", cpk, "denied")
               /\ UNCHANGED <<memberships, next_pk>>
          ELSE IF user_ids = {}
          THEN /\ result' = Report("membership_create", cpk, "invalid")
               /\ UNCHANGED <<memberships, next_pk>>
          ELSE /\ next_pk.membership + Cardinality(fresh) - 1 <= MaxMemberships
               /\ memberships' = memberships \cup
                      {MembershipSave([pk |-> next_pk.membership + order(x),
                                       committee |-> cpk, member |-> x,
                                       status |-> "ACTIVE", left_at |-> None]) : x \in fresh}
               /\ next_pk' = [next_pk EXCEPT !.membership = @ + Cardinality(fresh)]
               /\ result' = Report("membership_create", cpk,
                                   IF fresh /= user_ids \cap users THEN "already"
                                   ELSE IF fresh /= {} THEN "ok" ELSE "none")
    /\ UNCHANGED <<now, users, is_organizer, committees, contributions, payouts, invitations>>
    /\ UNCHANGED inflight

membership_update(u, mpk, status) ==
    /\ u \in users
    /\ mpk \in MembershipPks
    /\ LET m == MembershipOf(mpk)
       IN IF OrganizerOfMembership(m) /= u
          THEN /\ result' = Report("membership_update", mpk, "denied")
               /\ UNCHANGED memberships
          ELSE /\ memberships' = (memberships \ {m}) \cup {MembershipFormSave(m, status)}
               /\ result' = Report("membership_update", mpk, "ok")
    /\ UNCHANGED <<now, users, is_organizer, committees, contributions, payouts,
                   invitations, next_pk>>
    /\ UNCHANGED inflight

membership_delete(u, mpk) ==
    /\ u \in users
    /\ mpk \in MembershipPks
    /\ LET m == MembershipOf(mpk)
       IN IF OrganizerOfMembership(m) /= u
          THEN /\ result' = Report("membership_delete", mpk, "denied")
               /\ UNCHANGED <<memberships, contributions, payouts>>
          ELSE /\ DeleteMemberships({mpk})
               /\ result' = Report("membership_delete", mpk, "ok")
    /\ UNCHANGED <<now, users, is_organizer, committees, invitations, next_pk>>
    /\ UNCHANGED inflight

(* ----------------------- Contribution (models.py) ---------------------- *)
\* Mutant of Contribution.clean: a payment on the due day counts as late.
DeriveStatus_DueDayLate(payment_date, due_date) ==
    IF Val(payment_date) >= Val(due_date) THEN "LATE" ELSE "PAID"

DeriveStatus(payment_date, due_date) ==
    IF Val(payment_date) > Val(due_date) THEN "LATE" ELSE "PAID"

ContributionClean(c) ==
    IF c.payment_date /= None /\ c.due_date /= None
    THEN [c EXCEPT !.payment_status = DeriveStatus(c.payment_date, c.due_date)]
    ELSE c

\* Mutant of Contribution.save: the due date is the 5th of the current month.
ContributionSave_DueThisMonth(c) ==
    LET d == IF c.due_date = None
             THEN [c EXCEPT !.due_date = Some(DateOf(MonthOf(now), DueDay))]
             ELSE c
    IN ContributionClean(d)

ContributionSave(c) ==
    LET d == IF c.due_date = None
             THEN [c EXCEPT !.due_date = Some(DateOf(MonthOf(c.for_month), DueDay))]
             ELSE c
    IN ContributionClean(d)

\* A Contribution() as the model form builds it before its fields are set.
NewContribution(pk, mpk) ==
    [pk |-> pk, membership |-> mpk, amount_paid |-> 0, for_month |-> 0,
     due_date |-> None, payment_date |-> None, payment_status |-> "PENDING",
     verified_by_organizer |-> FALSE]

(* --------------------- ContributionForm (forms.py) --------------------- *)
\* Mutant of ContributionForm.clean: the duplicate test compares the dates.
SameMonthExists_ExactDate(mpk, for_month, except_pk) ==
    \E c \in contributions :
        c.membership = mpk /\ c.for_month = for_month /\ c.pk /= except_pk

SameMonthExists(mpk, for_month, except_pk) ==
    \E c \in contributions :
        /\ c.membership = mpk
        /\ MonthOf(c.for_month) = MonthOf(for_month)
        /\ c.pk /= except_pk

\* Mutant of clean_amount_paid: an overpayment passes.
ContributionFormValid_AtLeast(u, m, instance_pk, amount, for_month) ==
    /\ amount >= CommitteeOf(m.committee).monthly_amount
    /\ is_organizer[u] \/ m.member = u
    /\ ~SameMonthExists(m.pk, for_month, instance_pk)
    /\ for_month <= now

\* is_valid(): clean_amount_paid and clean.  instance_pk is 0 on create.
ContributionFormValid(u, m, instance_pk, amount, for_month) ==
    /\ amount = CommitteeOf(m.committee).monthly_amount
    /\ is_organizer[u] \/ m.member = u
    /\ ~SameMonthExists(m.pk, for_month, instance_pk)
    /\ for_month <= now

\* The error an invalid form shows: the duplicate month, the amount, or another.
ContributionFormError(m, instance_pk, amount, for_month) ==
    IF SameMonthExists(m.pk, for_month, instance_pk) THEN "duplicate"
    ELSE IF amount /= CommitteeOf(m.committee).monthly_amount THEN "amount"
    ELSE "invalid"

\* Mutant of ContributionForm.save: the flag is written on every save, and set
\* only for a payment on time.
ContributionFormSave_WritesFlag(u, inst, amount, for_month) ==
    LET pd == IF inst.payment_date = None THEN Some(now) ELSE inst.payment_date
        st == IF pd /= None
              THEN IF inst.due_date /= None /\ Val(pd) > Val(inst.due_date)
                   THEN "LATE" ELSE "PAID"
              ELSE "PENDING"
        ver == st = "PAID" /\ is_organizer[u]
    IN [inst EXCEPT !.amount_paid = amount, !.for_month = for_month,
                    !.payment_date = pd, !.payment_status = st,
                    !.verified_by_organizer = ver]

\* ContributionForm.save(commit=False): the instance with the posted fields,
\* before Contribution.save.
ContributionFormSave(u, inst, amount, for_month) ==
    LET pd == IF inst.payment_date = None THEN Some(now) ELSE inst.payment_date
        st == IF pd /= None
              THEN IF inst.due_date /= None /\ Val(pd) > Val(inst.due_date)
                   THEN "LATE" ELSE "PAID"
              ELSE "PENDING"
        ver == IF st \in {"PAID", "LATE"} /\ is_organizer[u]
               THEN TRUE ELSE inst.verified_by_organizer
    IN [inst EXCEPT !.amount_paid = amount, !.for_month = for_month,
                    !.payment_date = pd, !.payment_status = st,
                    !.verified_by_organizer = ver]

\* The unique_together of Contribution.Meta, as the database enforces it.
ContributionUnique(c) ==
    ~\E d \in contributions :
        d.pk /= c.pk /\ d.membership = c.membership /\ d.for_month = c.for_month

StoreContribution(op, pk, old, c) ==
    IF ContributionUnique(c)
    THEN /\ contributions' = (contributions \ old) \cup {c}
         /\ result' = Report(op, pk, "ok")
    ELSE /\ contributions' = contributions
         /\ result' = Report(op, pk, "error")

(* ----------------------- contribution handlers ------------------------- *)
contribution_create(u, mpk, amount, for_month) ==
    /\ u \in users
    /\ mpk \in MembershipPks
    /\ next_pk.contribution <= MaxContributions
    /\ LET m == MembershipOf(mpk)
           inst == NewContribution(next_pk.contribution, mpk)
       IN IF OrganizerOfMembership(m) /= u
          THEN /\ result' = Report("contribution_create", mpk, "denied")
               /\ UNCHANGED <<contributions, next_pk>>
          ELSE IF ContributionFormValid(u, m, 0, amount, for_month)
          THEN /\ StoreContribution("contribution_create", mpk, {}, ContributionSave(
                       ContributionFormSave(u, inst, amount, for_month)))
               /\ next_pk' = [next_pk EXCEPT !.contribution = @ + 1]
          ELSE /\ result' = Report("contribution_create", mpk,
                                   ContributionFormError(m, 0, amount, for_month))
               /\ UNCHANGED <<contributions, next_pk>>
    /\ UNCHANGED <<now, users, is_organizer, committees, memberships, payouts, invitations>>
    /\ UNCHANGED inflight

member_contribution_create(u, mpk, amount, for_month) ==
    /\ u \in users
    /\ mpk \in MembershipPks
    /\ next_pk.contribution <= MaxContributions
    /\ LET m == MembershipOf(mpk)
           inst == NewContribution(next_pk.contribution, mpk)
           f == ContributionFormSave(u, inst, amount, for_month)
       IN IF m.member /= u
          THEN /\ result' = Report("member_contribution_create", mpk, "denied")
               /\ UNCHANGED <<contributions, next_pk>>
          ELSE IF ContributionFormValid(u, m, 0, amount, for_month)
          THEN /\ StoreContribution("member_contribution_create", mpk, {}, ContributionSave(
                       [f EXCEPT !.payment_status = "PENDING"]))
               /\ next_pk' = [next_pk EXCEPT !.contribution = @ + 1]
          ELSE /\ result' = Report("member_contribution_create", mpk,
                                   ContributionFormError(m, 0, amount, for_month))
               /\ UNCHANGED <<contributions, next_pk>>
    /\ UNCHANGED <<now, users, is_organizer, committees, memberships, payouts, invitations>>
    /\ UNCHANGED inflight

\* selected is the set of memberships ticked in the posted form.
bulk_contribution(u, selected) ==
    /\ u \in users
    /\ LET active == {m \in memberships :
                         m.status = "ACTIVE" /\ OrganizerOfMembership(m) = u}
           current_month == MonthStart(now)
           recorded == {m.pk : m \in {x \in active :
                                         SameMonthExists(x.pk, current_month, 0)}}
           todo == {m \in active :
                       /\ m.pk \in selected
                       /\ m.pk \notin recorded
                       /\ ContributionFormValid(u, m, 0,
                              CommitteeOf(m.committee).monthly_amount, current_month)}
           keys == {m.pk : m \in todo}
       IN IF ~is_organizer[u]
          THEN /\ result' = Report("bulk_contribution", 0, "denied")
               /\ UNCHANGED <<contributions, next_pk>>
          ELSE /\ next_pk.contribution + Cardinality(todo) - 1 <= MaxContributions
               /\ contributions' = contributions \cup
                      {ContributionSave(ContributionFormSave(u,
                           NewContribution(next_pk.contribution + Rank(keys, m.pk), m.pk),
                           CommitteeOf(m.committee).monthly_amount, current_month))
                       : m \in todo}
               /\ next_pk' = [next_pk EXCEPT !.contribution = @ + Cardinality(todo)]
               /\ result' = Report("bulk_contribution", 0, IF todo /= {} THEN "ok" ELSE "invalid")
    /\ UNCHANGED <<now, users, is_organizer, committees, memberships, payouts, invitations>>
    /\ UNCHANGED inflight

\* Mutant of contribution_update: without the test for a paid contribution.
contribution_update_NoPaidTest(u, pk, amount, for_month) ==
    /\ u \in users
    /\ pk \in ContributionPks
    /\ LET c == ContributionOf(pk)
           m == MembershipOf(c.membership)
       IN IF OrganizerOfMembership(m) /= u
          THEN /\ result' = Report("contribution_update", pk, "denied")
               /\ UNCHANGED contributions
          ELSE IF ContributionFormValid(u, m, pk, amount, for_month)
          THEN StoreContribution("contribution_update", pk, {c}, ContributionSave(
                   ContributionFormSave(u, c, amount, for_month)))
          ELSE /\ result' = Report("contribution_update", pk,
                                   ContributionFormError(m, pk, amount, for_month))
               /\ UNCHANGED contributions
    /\ UNCHANGED <<now, users, is_organizer, committees, memberships, payouts,
                   invitations, next_pk>>
    /\ UNCHANGED inflight

contribution_update(u, pk, amount, for_month) ==
    /\ u \in users
    /\ pk \in ContributionPks
    /\ LET c == ContributionOf(pk)
           m == MembershipOf(c.membership)
       IN IF OrganizerOfMembership(m) /= u
          THEN /\ result' = Report("contribution_update", pk, "denied")
               /\ UNCHANGED contributions
          ELSE IF c.payment_status = "PAID"
          THEN /\ result' = Report("contribution_update", pk, "frozen")
               /\ UNCHANGED contributions
          ELSE IF ContributionFormValid(u, m, pk, amount, for_month)
          THEN StoreContribution("contribution_update", pk, {c}, ContributionSave(
                   ContributionFormSave(u, c, amount, for_month)))
          ELSE /\ result' = Report("contribution_update", pk,
                                   ContributionFormError(m, pk, amount, for_month))
               /\ UNCHANGED contributions
    /\ UNCHANGED <<now, users, is_organizer, committees, memberships, payouts,
                   invitations, next_pk>>
    /\ UNCHANGED inflight

contribution_delete(u, pk) ==
    /\ u \in users
    /\ pk \in ContributionPks
    /\ LET c == ContributionOf(pk)
       IN IF OrganizerOfMembership(MembershipOf(c.membership)) /= u
          THEN /\ result' = Report("contribution_delete", pk, "denied")
               /\ UNCHANGED contributions
          ELSE /\ contributions' = contributions \ {c}
               /\ result' = Report("contribution_delete", pk, "ok")
    /\ UNCHANGED <<now, users, is_organizer, committees, memberships, payouts,
                   invitations, next_pk>>
    /\ UNCHANGED inflight

contribution_verify(u, pk) ==
    /\ u \in users
    /\ pk \in ContributionPks
    /\ LET c == ContributionOf(pk)
       IN IF OrganizerOfMembership(MembershipOf(c.membership)) /= u
          THEN /\ result' = Report("contribution_verify", pk, "denied")
               /\ UNCHANGED contributions
          ELSE IF c.verified_by_organizer
          THEN /\ result' = Report("contribution_verify", pk, "already")
               /\ UNCHANGED contributions
          ELSE /\ contributions' = (contributions \ {c}) \cup
                      {ContributionSave([c EXCEPT !.verified_by_organizer = TRUE])}
               /\ result' = Report("contribution_verify", pk, "ok")
    /\ UNCHANGED <<now, users, is_organizer, committees, memberships, payouts,
                   invitations, next_pk>>
    /\ UNCHANGED inflight

(* ------------------------- PayoutForm (forms.py) ----------------------- *)
RECURSIVE SumAmounts(_)
SumAmounts(cs) ==
    IF cs = {} THEN 0
    ELSE LET c == CHOOSE x \in cs : TRUE
         IN c.amount_paid + SumAmounts(cs \ {c})

\* total_verified of PayoutForm.clean_total_amount
VerifiedTotal(mpk) ==
    SumAmounts({c \in contributions :
                   /\ c.membership = mpk
                   /\ c.payment_status \in {"PAID", "LATE"}
                   /\ c.verified_by_organizer})

\* The queryset of the received_by field.
ActiveMembers(cpk) ==
    {m.member : m \in {x \in memberships : x.committee = cpk /\ x.status = "ACTIVE"}}

PayoutExists(mpk) == \E p \in payouts : p.membership = mpk

\* Mutant of PayoutForm: it has no clean_total_amount.
PayoutFormValid_NoBound(u, m, instance_pk, total, received_by) ==
    /\ received_by = NoUser \/ received_by \in ActiveMembers(m.committee)
    /\ CommitteeOf(m.committee).organizer = u
    /\ ~(instance_pk = 0 /\ PayoutExists(m.pk))

\* Mutant of PayoutForm.clean: it does not look for an existing payout.
PayoutFormValid_NoDuplicateTest(u, m, instance_pk, total, received_by) ==
    /\ received_by = NoUser \/ received_by \in ActiveMembers(m.committee)
    /\ total <= VerifiedTotal(m.pk)
    /\ CommitteeOf(m.committee).organizer = u

\* is_valid(): the received_by choice, clean_total_amount and clean.
\* instance_pk is 0 on create.
PayoutFormValid(u, m, instance_pk, total, received_by) ==
    /\ received_by = NoUser \/ received_by \in ActiveMembers(m.committee)
    /\ total <= VerifiedTotal(m.pk)
    /\ CommitteeOf(m.committee).organizer = u
    /\ ~(instance_pk = 0 /\ PayoutExists(m.pk))

\* Mutant of PayoutForm.save: every confirmed save stamps confirmed_at.
PayoutFormSave_AlwaysStamps(inst, total, received_by, is_confirmed) ==
    LET f == [inst EXCEPT !.total_amount = total, !.received_by = received_by,
                          !.is_confirmed = is_confirmed]
    IN IF f.is_confirmed THEN [f EXCEPT !.confirmed_at = Some(now)] ELSE f

\* PayoutForm.save(commit=False)
PayoutFormSave(inst, total, received_by, is_confirmed) ==
    LET f == [inst EXCEPT !.total_amount = total, !.received_by = received_by,
                          !.is_confirmed = is_confirmed]
    IN IF f.is_confirmed /\ f.confirmed_at = None
       THEN [f EXCEPT !.confirmed_at = Some(now)] ELSE f

\* Mutant of the constraint: the database accepts every payout.
PayoutUnique_Unenforced(p) == TRUE

\* The unique_together of Payout.Meta, as the database enforces it.
PayoutUnique(p) == ~\E q \in payouts : q.pk /= p.pk /\ q.membership = p.membership

(* -------------------------- payout handlers ---------------------------- *)
payout_create(u, mpk, total, received_by, is_confirmed) ==
    /\ u \in users
    /\ mpk \in MembershipPks
    /\ next_pk.payout <= MaxPayouts
    /\ LET m == MembershipOf(mpk)
           inst == [pk |-> next_pk.payout, membership |-> mpk, total_amount |-> 0,
                    received_by |-> NoUser, is_confirmed |-> FALSE,
                    confirmed_at |-> None, paid_at |-> now]
           f == PayoutFormSave(inst, total, received_by, is_confirmed)
           p == [f EXCEPT !.is_confirmed = TRUE, !.confirmed_at = Some(now)]
       IN IF OrganizerOfMembership(m) /= u
          THEN /\ result' = Report("payout_create", mpk, "denied")
               /\ UNCHANGED <<payouts, next_pk>>
          ELSE IF ~PayoutFormValid(u, m, 0, total, received_by)
          THEN /\ result' = Report("payout_create", mpk,
                                   IF PayoutExists(mpk) THEN "duplicate" ELSE "invalid")
               /\ UNCHANGED <<payouts, next_pk>>
          ELSE IF ~PayoutUnique(p)
          THEN /\ result' = Report("payout_create", mpk, "error")
               /\ UNCHANGED <<payouts, next_pk>>
          ELSE /\ payouts' = payouts \cup {p}
               /\ next_pk' = [next_pk EXCEPT !.payout = @ + 1]
               /\ result' = Report("payout_create", mpk, "ok")
    /\ UNCHANGED <<now, users, is_organizer, committees, memberships, contributions,
                   invitations>>
    /\ UNCHANGED inflight

payout_update(u, pk, total, received_by, is_confirmed) ==
    /\ u \in users
    /\ pk \in PayoutPks
    /\ LET p == PayoutOf(pk)
           m == MembershipOf(p.membership)
           \* is_valid() has already written the posted fields to the instance
           \* the view calls payout, so the view's own test reads the new flag.
           f == [p EXCEPT !.is_confirmed = is_confirmed]
           g == PayoutFormSave(p, total, received_by, is_confirmed)
           h == IF ~f.is_confirmed /\ is_confirmed
                THEN [g EXCEPT !.confirmed_at = Some(now)] ELSE g
       IN IF OrganizerOfMembership(m) /= u
          THEN /\ result' = Report("payout_update", pk, "denied")
               /\ UNCHANGED payouts
          ELSE IF ~PayoutFormValid(u, m, pk, total, received_by)
          THEN /\ result' = Report("payout_update", pk, "invalid")
               /\ UNCHANGED payouts
          ELSE /\ payouts' = (payouts \ {p}) \cup {h}
               /\ result' = Report("payout_update", pk, "ok")
    /\ UNCHANGED <<now, users, is_organizer, committees, memberships, contributions,
                   invitations, next_pk>>
    /\ UNCHANGED inflight

\* Mutant of payout_delete: without the test of the organizer.
payout_delete_AnyUser(u, pk) ==
    /\ u \in users
    /\ pk \in PayoutPks
    /\ payouts' = payouts \ {PayoutOf(pk)}
    /\ result' = Report("payout_delete", pk, "ok")
    /\ UNCHANGED <<now, users, is_organizer, committees, memberships, contributions,
                   invitations, next_pk>>
    /\ UNCHANGED inflight

payout_delete(u, pk) ==
    /\ u \in users
    /\ pk \in PayoutPks
    /\ LET p == PayoutOf(pk)
       IN IF OrganizerOfMembership(MembershipOf(p.membership)) /= u
          THEN /\ result' = Report("payout_delete", pk, "denied")
               /\ UNCHANGED payouts
          ELSE /\ payouts' = payouts \ {p}
               /\ result' = Report("payout_delete", pk, "ok")
    /\ UNCHANGED <<now, users, is_organizer, committees, memberships, contributions,
                   invitations, next_pk>>
    /\ UNCHANGED inflight

(* ---------------------- Invitation (models.py) ------------------------- *)
\* Invitation.objects.create(committee, invited_by, email, token): status and
\* expires_at take the defaults of the model.
NewInvitation(pk, cpk, u, email, token) ==
    [pk |-> pk, committee |-> cpk, invited_by |-> u, email |-> email,
     token |-> token, status |-> "PENDING", expires_at |-> Some(now + InviteDays)]

\* InvitationForm.is_valid(): an organizer cannot invite their own address.
InvitationFormValid(u, email) == Lower(email) /= Lower(Email(u))

HasToken(token) == \E i \in invitations : i.token = token
InvitationByToken(token) == CHOOSE i \in invitations : i.token = token

\* invitation.expires_at and timezone.now() > invitation.expires_at
PastExpiry(i) == i.expires_at /= None /\ now > Val(i.expires_at)

can_accept(i, u) ==
    /\ u /= Anonymous
    /\ i.status = "PENDING"
    /\ ~PastExpiry(i)
    /\ Lower(Email(u)) = Lower(i.email)

\* Mutant of get_or_create: a row is created whether or not one exists.
GetOrCreateMembership_AlwaysCreates(cpk, u, pk) ==
    memberships \cup {MembershipSave([pk |-> pk, committee |-> cpk, member |-> u,
                                      status |-> "ACTIVE", left_at |-> None])}

\* Membership.objects.get_or_create(committee, member, defaults={status: ACTIVE}):
\* the rows afterwards; pk is the key a new row would get.
GetOrCreateMembership(cpk, u, pk) ==
    IF \E m \in memberships : m.committee = cpk /\ m.member = u
    THEN memberships
    ELSE memberships \cup {MembershipSave([pk |-> pk, committee |-> cpk, member |-> u,
                                           status |-> "ACTIVE", left_at |-> None])}

(* ------------------------ invitation handlers -------------------------- *)
invitation_send(u, cpk, email) ==
    /\ u \in users
    /\ cpk \in CommitteePks
    /\ next_pk.invitation <= MaxInvitations
    /\ next_pk.token <= MaxTokens
    /\ IF CommitteeOf(cpk).organizer /= u
       THEN /\ result' = Report("invitation_send", cpk, "denied")
            /\ UNCHANGED <<invitations, next_pk>>
       ELSE IF InvitationFormValid(u, email)
       THEN /\ invitations' = invitations \cup
                   {NewInvitation(next_pk.invitation, cpk, u, email, next_pk.token)}
            /\ next_pk' = [next_pk EXCEPT !.invitation = @ + 1, !.token = @ + 1]
            /\ result' = Report("invitation_send", cpk, "ok")
       ELSE /\ result' = Report("invitation_send", cpk, "invalid")
            /\ UNCHANGED <<invitations, next_pk>>
    /\ UNCHANGED <<now, users, is_organizer, committees, memberships, contributions, payouts>>
    /\ UNCHANGED inflight

\* Mutants of the tests invitation_accept makes before it creates a
\* membership: one without the status test, one that asks for a login first.
AcceptOutcome_NoStatusTest(i, u) ==
    IF PastExpiry(i) THEN "expired"
    ELSE IF ~can_accept(i, u) THEN "login_required"
    ELSE "ok"

AcceptOutcome_LoginFirst(i, u) ==
    IF i.status /= "PENDING" THEN "invalid"
    ELSE IF ~can_accept(i, u) THEN "login_required"
    ELSE IF PastExpiry(i) THEN "expired"
    ELSE "ok"

\* The tests of invitation_accept, in the order the handler makes them.
AcceptOutcome(i, u) ==
    IF i.status /= "PENDING" THEN "invalid"
    ELSE IF PastExpiry(i) THEN "expired"
    ELSE IF ~can_accept(i, u) THEN "login_required"
    ELSE "ok"

\* u is Anonymous for a request without a session.  The report names the token.
invitation_accept(u, token) ==
    /\ u \in users \cup {Anonymous}
    /\ IF ~HasToken(token)
       THEN /\ result' = Report("invitation_accept", token, "notfound")
            /\ UNCHANGED <<invitations, memberships, next_pk>>
       ELSE LET i == InvitationByToken(token)
                out == AcceptOutcome(i, u)
                rows == GetOrCreateMembership(i.committee, u, next_pk.membership)
            IN /\ result' = Report("invitation_accept", token, out)
               /\ IF out = "expired"
                  THEN /\ invitations' = (invitations \ {i}) \cup
                              {[i EXCEPT !.status = "EXPIRED"]}
                       /\ UNCHANGED <<memberships, next_pk>>
                  ELSE IF out = "ok"
                  THEN /\ rows /= memberships => next_pk.membership <= MaxMemberships
                       /\ memberships' = rows
                       /\ next_pk' = IF rows /= memberships
                                     THEN [next_pk EXCEPT !.membership = @ + 1]
                                     ELSE next_pk
                       /\ invitations' = (invitations \ {i}) \cup
                              {[i EXCEPT !.status = "ACCEPTED", !.expires_at = Some(now)]}
                  ELSE UNCHANGED <<invitations, memberships, next_pk>>
    /\ UNCHANGED <<now, users, is_organizer, committees, contributions, payouts>>
    /\ UNCHANGED inflight

\* Mutant of invitation_resend: the invitation keeps its token.
invitation_resend_KeepsToken(u, pk) ==
    /\ u \in users
    /\ pk \in InvitationPks
    /\ next_pk.token <= MaxTokens
    /\ LET i == InvitationOf(pk)
       IN IF CommitteeOf(i.committee).organizer /= u
          THEN /\ result' = Report("invitation_resend", pk, "denied")
               /\ UNCHANGED <<invitations, next_pk>>
          ELSE IF i.status \notin {"EXPIRED", "PENDING"}
          THEN /\ result' = Report("invitation_resend", pk, "refused")
               /\ UNCHANGED <<invitations, next_pk>>
          ELSE /\ invitations' = (invitations \ {i}) \cup
                      {[i EXCEPT !.expires_at = Some(now + InviteDays),
                                !.status = "PENDING"]}
               /\ next_pk' = [next_pk EXCEPT !.token = @ + 1]
               /\ result' = Report("invitation_resend", pk, "ok")
    /\ UNCHANGED <<now, users, is_organizer, committees, memberships, contributions, payouts>>
    /\ UNCHANGED inflight

invitation_resend(u, pk) ==
    /\ u \in users
    /\ pk \in InvitationPks
    /\ next_pk.token <= MaxTokens
    /\ LET i == InvitationOf(pk)
       IN IF CommitteeOf(i.committee).organizer /= u
          THEN /\ result' = Report("invitation_resend", pk, "denied")
               /\ UNCHANGED <<invitations, next_pk>>
          ELSE IF i.status \notin {"EXPIRED", "PENDING"}
          THEN /\ result' = Report("invitation_resend", pk, "refused")
               /\ UNCHANGED <<invitations, next_pk>>
          ELSE /\ invitations' = (invitations \ {i}) \cup
                      {[i EXCEPT !.token = next_pk.token,
                                 !.expires_at = Some(now + InviteDays),
                                 !.status = "PENDING"]}
               /\ next_pk' = [next_pk EXCEPT !.token = @ + 1]
               /\ result' = Report("invitation_resend", pk, "ok")
    /\ UNCHANGED <<now, users, is_organizer, committees, memberships, contributions, payouts>>
    /\ UNCHANGED inflight

\* Mutant of invitation_revoke: without the test of the status.
invitation_revoke_AnyStatus(u, pk) ==
    /\ u \in users
    /\ pk \in InvitationPks
    /\ LET i == InvitationOf(pk)
       IN IF CommitteeOf(i.committee).organizer /= u
          THEN /\ result' = Report("invitation_revoke", pk, "denied")
               /\ UNCHANGED invitations
          ELSE /\ invitations' = (invitations \ {i}) \cup
                      {[i EXCEPT !.status = "EXPIRED", !.expires_at = Some(now)]}
               /\ result' = Report("invitation_revoke", pk, "ok")
    /\ UNCHANGED <<now, users, is_organizer, committees, memberships, contributions,
                   payouts, next_pk>>
    /\ UNCHANGED inflight

invitation_revoke(u, pk) ==
    /\ u \in users
    /\ pk \in InvitationPks
    /\ LET i == InvitationOf(pk)
       IN IF CommitteeOf(i.committee).organizer /= u
          THEN /\ result' = Report("invitation_revoke", pk, "denied")
               /\ UNCHANGED invitations
          ELSE IF i.status /= "PENDING"
          THEN /\ result' = Report("invitation_revoke", pk, "refused")
               /\ UNCHANGED invitations
          ELSE /\ invitations' = (invitations \ {i}) \cup
                      {[i EXCEPT !.status = "EXPIRED", !.expires_at = Some(now)]}
               /\ result' = Report("invitation_revoke", pk, "ok")
    /\ UNCHANGED <<now, users, is_organizer, committees, memberships, contributions,
                   payouts, next_pk>>
    /\ UNCHANGED inflight

(* ------------------- signup (accounts/adapters.py) --------------------- *)
\* CustomAccountAdapter.save_user for a new account u with address Email(u).
\* The pending invitations are taken in key order; pks go to the committees
\* in the order their first invitation comes.
save_user(u) ==
    /\ u \in Users \ users
    /\ LET pending == {i \in invitations :
                          Lower(i.email) = Lower(Email(u)) /\ i.status = "PENDING"}
           cs == {i.committee : i \in pending}
           fresh == {c \in cs : ~\E m \in memberships : m.committee = c /\ m.member = u}
           first(c) == CHOOSE k \in {i.pk : i \in {j \in pending : j.committee = c}} :
                          \A i \in pending : i.committee = c => k <= i.pk
           order(c) == Cardinality({d \in fresh : first(d) < first(c)})
       IN /\ users' = users \cup {u}
          /\ IF pending /= {}
             THEN /\ is_organizer' = [is_organizer EXCEPT ![u] = FALSE]
                  /\ next_pk.membership + Cardinality(fresh) - 1 <= MaxMemberships
                  /\ memberships' = memberships \cup
                         {MembershipSave([pk |-> next_pk.membership + order(c),
                                          committee |-> c, member |-> u,
                                          status |-> "ACTIVE", left_at |-> None]) : c \in fresh}
                  /\ next_pk' = [next_pk EXCEPT !.membership = @ + Cardinality(fresh)]
                  /\ invitations' = (invitations \ pending) \cup
                         {[i EXCEPT !.status = "ACCEPTED", !.expires_at = Some(now)] :
                              i \in pending}
                  /\ result' = Report("save_user", 0, "invited")
             ELSE /\ is_organizer' = [is_organizer EXCEPT ![u] = TRUE]
                  /\ UNCHANGED <<memberships, invitations, next_pk>>
                  /\ result' = Report("save_user", 0, "ok")
    /\ UNCHANGED <<now, committees, contributions, payouts>>
    /\ UNCHANGED inflight

(* ------------------- committee lifecycle specification ----------------- *)
InitCommittee ==
    /\ now = LedgerStart
    /\ users = {"u1", "u2"}
    /\ is_organizer = [u \in Users |-> TRUE]
    /\ committees = {}
    /\ memberships = {}
    /\ contributions = {}
    /\ payouts = {}
    /\ invitations = {}
    /\ next_pk = [committee |-> 1, membership |-> 1, contribution |-> 1,
                  payout |-> 1, invitation |-> 1, token |-> 1]
    /\ result = Report("init", 0, "ok")
    /\ inflight = {}

CommitteeCreateAct ==
    \E u \in Users, a \in AmountInputs, d \in DurationInputs, s \in StartInputs :
        committee_create(u, a, d, s)
CommitteeUpdateAct ==
    \E u \in Users, pk \in CommitteePks, a \in AmountInputs, d \in DurationInputs,
       s \in StartInputs : committee_update(u, pk, a, d, s)
CommitteeDeleteAct == \E u \in Users, pk \in CommitteePks : committee_delete(u, pk)
ToggleAct == \E u \in Users, pk \in CommitteePks : toggle_committee_status(u, pk)
SwitchAct == \E u \in Users : switch_to_organizer(u)
StepDownAct == \E u \in Users : step_down_organizer(u)

NextCommittee ==
    \/ CommitteeCreateAct
    \/ CommitteeUpdateAct
    \/ CommitteeDeleteAct
    \/ ToggleAct
    \/ SwitchAct
    \/ StepDownAct
    \/ Tick

SpecCommittee == InitCommittee /\ [][NextCommittee]_vars

(* -------------------- contribution ledger specification ---------------- *)
\* One committee of u1 with monthly amount 1, running for two months from day
\* 0, and u2 an ACTIVE member of it; u2 signed up either on their own (organizer
\* flag set) or through an invitation (flag cleared).  The ledger is followed
\* from the due day of the committee's second month.
LedgerCommittee ==
    [pk |-> 1, organizer |-> "u1", status |-> "ACTIVE", monthly_amount |-> 1,
     duration_months |-> 2, start_date |-> 0, end_date |-> Some(AddMonths(0, 2))]

InitLedger ==
    /\ now = LedgerStart
    /\ users = {"u1", "u2"}
    /\ is_organizer \in {[u \in Users |-> IF u = "u2" THEN b ELSE TRUE] : b \in BOOLEAN}
    /\ committees = {LedgerCommittee}
    /\ memberships = {[pk |-> 1, committee |-> 1, member |-> "u2",
                       status |-> "ACTIVE", left_at |-> None]}
    /\ contributions = {}
    /\ payouts = {}
    /\ invitations = {}
    /\ next_pk = [committee |-> 2, membership |-> 2, contribution |-> 1,
                  payout |-> 1, invitation |-> 1, token |-> 1]
    /\ result = Report("init", 0, "ok")
    /\ inflight = {}

LedgerAmounts == {0, 1, 2}
\* The first and the second day of the committee's two months, and the first
\* day of the month after them.
ForMonthInputs == {DateOf(0, 1), DateOf(0, 2), DateOf(1, 1), DateOf(1, 2), DateOf(2, 1)}
StatusInputs == {"ACTIVE", "LEFT", "REMOVED"}
PayoutAmounts == {0, 1, 2}

ContributionCreateAct ==
    \E u \in Users, m \in MembershipPks, a \in LedgerAmounts, d \in ForMonthInputs :
        contribution_create(u, m, a, d)
MemberContributionCreateAct ==
    \E u \in Users, m \in MembershipPks, a \in LedgerAmounts, d \in ForMonthInputs :
        member_contribution_create(u, m, a, d)
BulkContributionAct ==
    \E u \in Users, sel \in SUBSET MembershipPks : bulk_contribution(u, sel)
ContributionUpdateAct ==
    \E u \in Users, pk \in ContributionPks, a \in LedgerAmounts, d \in ForMonthInputs :
        contribution_update(u, pk, a, d)
ContributionVerifyAct == \E u \in Users, pk \in ContributionPks : contribution_verify(u, pk)
ContributionDeleteAct == \E u \in Users, pk \in ContributionPks : contribution_delete(u, pk)
PayoutCreateAct ==
    \E u \in Users, m \in MembershipPks, t \in PayoutAmounts,
       r \in Users \cup {NoUser}, f \in BOOLEAN : payout_create(u, m, t, r, f)
PayoutUpdateAct ==
    \E u \in Users, pk \in PayoutPks, t \in PayoutAmounts,
       r \in Users \cup {NoUser}, f \in BOOLEAN : payout_update(u, pk, t, r, f)
PayoutDeleteAct == \E u \in Users, pk \in PayoutPks : payout_delete(u, pk)
MembershipUpdateAct ==
    \E u \in Users, m \in MembershipPks, st \in StatusInputs : membership_update(u, m, st)
MembershipDeleteAct == \E u \in Users, m \in MembershipPks : membership_delete(u, m)
NextLedger ==
    \/ ContributionCreateAct
    \/ MemberContributionCreateAct
    \/ BulkContributionAct
    \/ ContributionUpdateAct
    \/ ContributionVerifyAct
    \/ ContributionDeleteAct
    \/ Tick

SpecLedger == InitLedger /\ [][NextLedger]_vars

NextPayout ==
    \/ ContributionCreateAct
    \/ MemberContributionCreateAct
    \/ ContributionVerifyAct
    \/ ContributionDeleteAct
    \/ PayoutCreateAct
    \/ PayoutUpdateAct
    \/ PayoutDeleteAct
    \/ MembershipDeleteAct

SpecPayout == InitLedger /\ [][NextPayout]_vars

(* ---------------------- invitation specification ----------------------- *)
\* The committee of u1 with no member yet; u1 and u2 have accounts, u3 has
\* none and may sign up.  u1 sent one invitation InviteSent days ago, to u2's
\* address or to u3's; it runs out today.
InviteSent == LedgerStart - InviteDays

InitInvite ==
    /\ now = LedgerStart
    /\ users = {"u1", "u2"}
    /\ is_organizer = [u \in Users |-> TRUE]
    /\ committees = {LedgerCommittee}
    /\ memberships = {}
    /\ contributions = {}
    /\ payouts = {}
    /\ invitations \in {{[pk |-> 1, committee |-> 1, invited_by |-> "u1", email |-> e,
                           token |-> 1, status |-> "PENDING",
                           expires_at |-> Some(InviteSent + InviteDays)]} :
                             e \in {Lower(Email("u2")), Email("u3")}}
    /\ next_pk = [committee |-> 2, membership |-> 1, contribution |-> 1,
                  payout |-> 1, invitation |-> 2, token |-> 2]
    /\ result = Report("init", 0, "ok")
    /\ inflight = {}

\* The organizer's own address, u2's address in lower case, u3's address.
EmailInputs == {Email("u1"), [Email("u2") EXCEPT !.up = FALSE], Email("u3")}
TokenInputs == 1..MaxTokens

InvitationSendAct ==
    \E u \in Users, c \in CommitteePks, e \in EmailInputs : invitation_send(u, c, e)
InvitationAcceptAct ==
    \E u \in Users \cup {Anonymous}, t \in TokenInputs : invitation_accept(u, t)
InvitationResendAct == \E u \in Users, pk \in InvitationPks : invitation_resend(u, pk)
InvitationRevokeAct == \E u \in Users, pk \in InvitationPks : invitation_revoke(u, pk)
SignupAct == \E u \in Users : save_user(u)
MembershipCreateAct ==
    \E u \in Users, c \in CommitteePks, ids \in SUBSET Users : membership_create(u, c, ids)

NextInvite ==
    \/ InvitationSendAct
    \/ InvitationAcceptAct
    \/ InvitationResendAct
    \/ InvitationRevokeAct
    \/ SignupAct
    \/ CommitteeDeleteAct
    \/ Tick

SpecInvite == InitInvite /\ [][NextInvite]_vars

\* The ways a membership row comes and goes: the organizer's add, status
\* change and removal, the accept of an invitation, the signup of an invitee;
\* meanwhile the organizer may deactivate and reactivate the committee.
NextJoin ==
    \/ InvitationAcceptAct
    \/ SignupAct
    \/ MembershipCreateAct
    \/ MembershipUpdateAct
    \/ MembershipDeleteAct
    \/ ToggleAct

SpecJoin == InitInvite /\ [][NextJoin]_vars

(* ---------------------- authority specification ------------------------ *)
\* Every organizer-only handler.  The handlers that add or change a row are
\* posted by any user, with one well-formed set of values: the committee's own
\* values, the member u2, the current month, the committee's monthly amount,
\* an empty payout, u3's address.  The handlers that remove a row, revoke or
\* resend are posted by the users other than the committee's organizer.
AuthorityMonth == MonthStart(LedgerStart)
Outsiders == Users \ {LedgerCommittee.organizer}
AuthorityUpdateAct ==
    \E u \in Users, pk \in CommitteePks :
        committee_update(u, pk, LedgerCommittee.monthly_amount,
                         LedgerCommittee.duration_months, LedgerCommittee.start_date)
AuthorityAddAct == \E u \in Users, c \in CommitteePks : membership_create(u, c, {"u2"})
AuthorityStatusAct ==
    \E u \in Users, m \in MembershipPks, st \in {"ACTIVE", "LEFT"} :
        membership_update(u, m, st)
AuthorityRecordAct ==
    \E u \in Users, m \in MembershipPks :
        contribution_create(u, m, LedgerCommittee.monthly_amount, AuthorityMonth)
AuthorityEditAct ==
    \E u \in Users, pk \in ContributionPks :
        contribution_update(u, pk, LedgerCommittee.monthly_amount, AuthorityMonth)
AuthorityPayAct ==
    \E u \in Users, m \in MembershipPks : payout_create(u, m, 0, "u2", TRUE)
AuthorityRepayAct ==
    \E u \in Users, pk \in PayoutPks : payout_update(u, pk, 0, "u1", TRUE)
AuthorityInviteAct ==
    \E u \in Users, c \in CommitteePks : invitation_send(u, c, Email("u3"))
OutsiderCommitteeDeleteAct ==
    \E u \in Outsiders, pk \in CommitteePks : committee_delete(u, pk)
OutsiderMembershipDeleteAct ==
    \E u \in Outsiders, m \in MembershipPks : membership_delete(u, m)
OutsiderContributionDeleteAct ==
    \E u \in Outsiders, pk \in ContributionPks : contribution_delete(u, pk)
OutsiderPayoutDeleteAct ==
    \E u \in Outsiders, pk \in PayoutPks : payout_delete(u, pk)
OutsiderResendAct == \E u \in Outsiders, pk \in InvitationPks : invitation_resend(u, pk)
OutsiderRevokeAct == \E u \in Outsiders, pk \in InvitationPks : invitation_revoke(u, pk)

NextAuthority ==
    \/ AuthorityUpdateAct
    \/ ToggleAct
    \/ AuthorityAddAct
    \/ AuthorityStatusAct
    \/ AuthorityRecordAct
    \/ AuthorityEditAct
    \/ ContributionVerifyAct
    \/ AuthorityPayAct
    \/ AuthorityRepayAct
    \/ AuthorityInviteAct
    \/ OutsiderCommitteeDeleteAct
    \/ OutsiderMembershipDeleteAct
    \/ OutsiderContributionDeleteAct
    \/ OutsiderPayoutDeleteAct
    \/ OutsiderResendAct
    \/ OutsiderRevokeAct

SpecAuthority == InitLedger /\ [][NextAuthority]_vars

(* ------------------------ roster specification ------------------------- *)
\* The organizer adds members, changes their status and removes them, while
\* days pass.
NextRoster ==
    \/ MembershipCreateAct
    \/ MembershipUpdateAct
    \/ MembershipDeleteAct
    \/ Tick

SpecRoster == InitLedger /\ [][NextRoster]_vars

(* ---------------------- payout dates specification --------------------- *)
\* The organizer creates, changes and deletes payouts while days pass.
NextPayoutDates ==
    \/ PayoutCreateAct
    \/ PayoutUpdateAct
    \/ PayoutDeleteAct
    \/ Tick

SpecPayoutDates == InitLedger /\ [][NextPayoutDates]_vars

(* ------------------------ cascade specification ------------------------ *)
\* The organizer fills the ledger (a member, a contribution, a payout, an
\* invitation), then memberships and the committee are deleted.
NextCascade ==
    \/ AuthorityAddAct
    \/ AuthorityRecordAct
    \/ AuthorityPayAct
    \/ AuthorityInviteAct
    \/ MembershipDeleteAct
    \/ CommitteeDeleteAct

SpecCascade == InitLedger /\ [][NextCascade]_vars

(* --------------------- overlapping requests ---------------------------- *)
\* Two requests may overlap.  A request that has passed its checks waits in
\* `inflight` for its write: the handler, the user, the row it names and the
\* two posted values.
Slots == {1, 2}
Request(slot, op, u, target, a, b) ==
    [slot |-> slot, op |-> op, u |-> u, target |-> target, a |-> a, b |-> b]
FreeSlots == Slots \ {r.slot : r \in inflight}

\* contribution_create and member_contribution_create up to form.is_valid().
record_check(slot, op, u, mpk, amount, for_month) ==
    /\ slot \in FreeSlots
    /\ u \in users
    /\ mpk \in MembershipPks
    /\ LET m == MembershipOf(mpk)
           allowed == IF op = "contribution_create"
                      THEN OrganizerOfMembership(m) = u ELSE m.member = u
       IN IF ~allowed
          THEN /\ result' = Report(op, mpk, "denied")
               /\ UNCHANGED inflight
          ELSE IF ContributionFormValid(u, m, 0, amount, for_month)
          THEN /\ inflight' = inflight \cup {Request(slot, op, u, mpk, amount, for_month)}
               /\ result' = Report(op, mpk, "valid")
          ELSE /\ result' = Report(op, mpk, ContributionFormError(m, 0, amount, for_month))
               /\ UNCHANGED inflight
    /\ UNCHANGED <<now, users, is_organizer, committees, memberships, contributions,
                   payouts, invitations, next_pk>>

\* The rest of the two handlers: form.save() and the INSERT, which the
\* database refuses when it breaks the unique_together of Contribution.
record_write(r) ==
    /\ r \in inflight
    /\ r.op \in {"contribution_create", "member_contribution_create"}
    /\ r.target \in MembershipPks
    /\ next_pk.contribution <= MaxContributions
    /\ LET inst == NewContribution(next_pk.contribution, r.target)
           f == ContributionFormSave(r.u, inst, r.a, r.b)
           g == IF r.op = "member_contribution_create"
                THEN [f EXCEPT !.payment_status = "PENDING"] ELSE f
       IN StoreContribution(r.op, r.target, {}, ContributionSave(g))
    /\ next_pk' = [next_pk EXCEPT !.contribution = @ + 1]
    /\ inflight' = inflight \ {r}
    /\ UNCHANGED <<now, users, is_organizer, committees, memberships, payouts, invitations>>

RecordOps == {"contribution_create", "member_contribution_create"}
RecordCheckAct ==
    \E s \in Slots, op \in RecordOps, u \in Users, m \in MembershipPks,
       a \in LedgerAmounts, d \in ForMonthInputs : record_check(s, op, u, m, a, d)
RecordWriteAct == \E r \in inflight : record_write(r)

NextRecordRace ==
    \/ RecordCheckAct
    \/ RecordWriteAct

SpecRecordRace == InitLedger /\ [][NextRecordRace]_vars

\* payout_create up to form.is_valid().
payout_check(slot, u, mpk, total, received_by) ==
    /\ slot \in FreeSlots
    /\ u \in users
    /\ mpk \in MembershipPks
    /\ LET m == MembershipOf(mpk)
       IN IF OrganizerOfMembership(m) /= u
          THEN /\ result' = Report("payout_create", mpk, "denied")
               /\ UNCHANGED inflight
          ELSE IF PayoutFormValid(u, m, 0, total, received_by)
          THEN /\ inflight' = inflight \cup
                      {Request(slot, "payout_create", u, mpk, total, received_by)}
               /\ result' = Report("payout_create", mpk, "valid")
          ELSE /\ result' = Report("payout_create", mpk,
                                   IF PayoutExists(mpk) THEN "duplicate" ELSE "invalid")
               /\ UNCHANGED inflight
    /\ UNCHANGED <<now, users, is_organizer, committees, memberships, contributions,
                   payouts, invitations, next_pk>>

\* The rest of payout_create: the payout is confirmed and saved inside the
\* handler's try block, which turns a refusal of the database into an error
\* message.
payout_write(r) ==
    /\ r \in inflight
    /\ r.op = "payout_create"
    /\ r.target \in MembershipPks
    /\ next_pk.payout <= MaxPayouts
    /\ LET inst == [pk |-> next_pk.payout, membership |-> r.target, total_amount |-> 0,
                    received_by |-> NoUser, is_confirmed |-> FALSE,
                    confirmed_at |-> None, paid_at |-> now]
           f == PayoutFormSave(inst, r.a, r.b, TRUE)
           p == [f EXCEPT !.is_confirmed = TRUE, !.confirmed_at = Some(now)]
       IN IF PayoutUnique(p)
          THEN /\ payouts' = payouts \cup {p}
               /\ next_pk' = [next_pk EXCEPT !.payout = @ + 1]
               /\ result' = Report("payout_create", r.target, "ok")
          ELSE /\ result' = Report("payout_create", r.target, "error")
               /\ UNCHANGED <<payouts, next_pk>>
    /\ inflight' = inflight \ {r}
    /\ UNCHANGED <<now, users, is_organizer, committees, memberships, contributions,
                   invitations>>

PayoutCheckAct ==
    \E s \in Slots, u \in Users, m \in MembershipPks, t \in PayoutAmounts,
       r \in Users \cup {NoUser} : payout_check(s, u, m, t, r)
PayoutWriteAct == \E r \in inflight : payout_write(r)

NextPayoutRace ==
    \/ PayoutCheckAct
    \/ PayoutWriteAct
    \/ PayoutDeleteAct

SpecPayoutRace == InitLedger /\ [][NextPayoutRace]_vars

\* The unique_together of Membership.Meta, as the database enforces it.
MembershipUnique(m) ==
    ~\E x \in memberships : x.committee = m.committee /\ x.member = m.member

\* invitation_accept up to the _can_accept test.  A request that passes holds
\* the invitation it loaded; the report names the token.
invitation_accept_check(slot, u, token) ==
    /\ slot \in FreeSlots
    /\ u \in users \cup {Anonymous}
    /\ IF ~HasToken(token)
       THEN /\ result' = Report("invitation_accept", token, "notfound")
            /\ UNCHANGED <<invitations, inflight>>
       ELSE LET i == InvitationByToken(token)
                out == AcceptOutcome(i, u)
            IN IF out = "ok"
               THEN /\ inflight' = inflight \cup
                           {Request(slot, "invitation_accept", u, i.pk, token, u)}
                    /\ result' = Report("invitation_accept", token, "valid")
                    /\ UNCHANGED invitations
               ELSE /\ result' = Report("invitation_accept", token, out)
                    /\ invitations' = IF out = "expired"
                                      THEN (invitations \ {i}) \cup
                                               {[i EXCEPT !.status = "EXPIRED"]}
                                      ELSE invitations
                    /\ UNCHANGED inflight
    /\ UNCHANGED <<now, users, is_organizer, committees, memberships, contributions,
                   payouts, next_pk>>

\* invitation_accept: Membership.objects.get_or_create.
invitation_accept_join(r) ==
    /\ r \in inflight
    /\ r.op = "invitation_accept"
    /\ r.target \in InvitationPks
    /\ LET i == InvitationOf(r.target)
           rows == GetOrCreateMembership(i.committee, r.u, next_pk.membership)
       IN /\ rows /= memberships => next_pk.membership <= MaxMemberships
          /\ memberships' = rows
          /\ next_pk' = IF rows /= memberships
                        THEN [next_pk EXCEPT !.membership = @ + 1]
                        ELSE next_pk
    /\ inflight' = (inflight \ {r}) \cup {[r EXCEPT !.op = "invitation_accept_save"]}
    /\ result' = Report("invitation_accept", r.a, "joined")
    /\ UNCHANGED <<now, users, is_organizer, committees, contributions, payouts,
                   invitations>>

\* invitation_accept: invitation.save() of the loaded row.  Between the load
\* and this save only other accepts write the row, and they write the same two
\* fields, so the loaded row is the stored row but for status and expires_at.
invitation_accept_save(r) ==
    /\ r \in inflight
    /\ r.op = "invitation_accept_save"
    /\ r.target \in InvitationPks
    /\ LET i == InvitationOf(r.target)
       IN invitations' = (invitations \ {i}) \cup
              {[i EXCEPT !.status = "ACCEPTED", !.expires_at = Some(now)]}
    /\ inflight' = inflight \ {r}
    /\ result' = Report("invitation_accept", r.a, "ok")
    /\ UNCHANGED <<now, users, is_organizer, committees, memberships, contributions,
                   payouts, next_pk>>

\* membership_create for one posted user id, up to the exists() query.
membership_create_check(slot, u, cpk, x) ==
    /\ slot \in FreeSlots
    /\ u \in users
    /\ cpk \in CommitteePks
    /\ IF CommitteeOf(cpk).organizer /= u
       THEN /\ result' = Report("membership_create", cpk, "denied")
            /\ UNCHANGED inflight
       ELSE IF x \notin users
       THEN /\ result' = Report("membership_create", cpk, "none")
            /\ UNCHANGED inflight
       ELSE IF MembershipExists(cpk, x)
       THEN /\ result' = Report("membership_create", cpk, "already")
            /\ UNCHANGED inflight
       ELSE /\ inflight' = inflight \cup
                   {Request(slot, "membership_create", u, cpk, 0, x)}
            /\ result' = Report("membership_create", cpk, "valid")
    /\ UNCHANGED <<now, users, is_organizer, committees, memberships, contributions,
                   payouts, invitations, next_pk>>

\* membership_create: Membership.objects.create.  The handler catches only
\* User.DoesNotExist, so a refusal of the database ends the request with
\* nothing stored.
membership_create_write(r) ==
    /\ r \in inflight
    /\ r.op = "membership_create"
    /\ r.target \in CommitteePks
    /\ next_pk.membership <= MaxMemberships
    /\ LET m == MembershipSave([pk |-> next_pk.membership, committee |-> r.target,
                                member |-> r.b, status |-> "ACTIVE", left_at |-> None])
       IN IF MembershipUnique(m)
          THEN /\ memberships' = memberships \cup {m}
               /\ next_pk' = [next_pk EXCEPT !.membership = @ + 1]
               /\ result' = Report("membership_create", r.target, "ok")
          ELSE /\ result' = Report("membership_create", r.target, "error")
               /\ UNCHANGED <<memberships, next_pk>>
    /\ inflight' = inflight \ {r}
    /\ UNCHANGED <<now, users, is_organizer, committees, contributions, payouts,
                   invitations>>

AcceptCheckAct ==
    \E s \in Slots, u \in Users \cup {Anonymous}, t \in TokenInputs :
        invitation_accept_check(s, u, t)
AcceptJoinAct == \E r \in inflight : invitation_accept_join(r)
AcceptSaveAct == \E r \in inflight : invitation_accept_save(r)
AddCheckAct ==
    \E s \in Slots, u \in Users, c \in CommitteePks, x \in Users :
        membership_create_check(s, u, c, x)
AddWriteAct == \E r \in inflight : membership_create_write(r)

NextJoinRace ==
    \/ AcceptCheckAct
    \/ AcceptJoinAct
    \/ AcceptSaveAct
    \/ AddCheckAct
    \/ AddWriteAct
    \/ Tick

SpecJoinRace == InitInvite /\ [][NextJoinRace]_vars

(* ----------------------- amount specification -------------------------- *)
\* Contributions are recorded while the organizer edits the committee's
\* monthly amount to a positive value; the other fields of the form are
\* posted as stored.
EditAmounts == {1, 2}

AmountEditAct ==
    \E u \in Users, pk \in CommitteePks, a \in EditAmounts :
        committee_update(u, pk, a, CommitteeOf(pk).duration_months,
                         CommitteeOf(pk).start_date)

NextAmount ==
    \/ ContributionCreateAct
    \/ MemberContributionCreateAct
    \/ BulkContributionAct
    \/ ContributionUpdateAct
    \/ AmountEditAct

SpecAmount == InitLedger /\ [][NextAmount]_vars

(* ---------------------- organizer flag specification ------------------- *)
\* Every handler that writes is_organizer or the organizer of a committee:
\* committee create and delete, the switch to organizer, the step down, and
\* the signup of an invited or uninvited user.  Committees are created with
\* one well-formed set of values and invitations go to u3's address.
OrganizerCreateAct == \E u \in Users : committee_create(u, 1, 1, LedgerStart)
OrganizerInviteAct ==
    \E u \in Users, c \in CommitteePks : invitation_send(u, c, Email("u3"))

NextOrganizer ==
    \/ OrganizerCreateAct
    \/ CommitteeDeleteAct
    \/ SwitchAct
    \/ StepDownAct
    \/ OrganizerInviteAct
    \/ SignupAct

SpecOrganizer == InitCommittee /\ [][NextOrganizer]_vars

(* ---------------------------- C4 and C5 -------------------------------- *)
\* The step saves committee pk: a create that stores it, an update that passes
\* validation, or a status toggle by the organizer.
SavesCommittee(pk) ==
    /\ result'.pk = pk
    /\ \/ result'.op \in {"committee_create", "committee_update"} /\ result'.out = "ok"
       \/ result'.op = "toggle_committee_status" /\ result'.out /= "denied"

StatusBefore(pk) == IF pk \in CommitteePks THEN CommitteeOf(pk).status ELSE "ACTIVE"
EndPassedAfter(pk) == Val(CommitteeOf(pk).end_date)' < now'

\* C4 as stated: after any save of a committee whose endDate is earlier than
\* today, its status is COMPLETED, whatever it was before the save.
C4_AnySaveCompletes ==
    [][\A pk \in CommitteePks' :
          SavesCommittee(pk) /\ EndPassedAfter(pk)
              => CommitteeOf(pk).status' = "COMPLETED"]_vars

\* C4 amended: after any save of a committee whose endDate is earlier than
\* today, its status is COMPLETED unless it was DEACTIVATED before the save; a
\* DEACTIVATED committee whose endDate has passed stays DEACTIVATED.
C4_SaveCompletesActive ==
    [][\A pk \in CommitteePks' :
          SavesCommittee(pk) /\ EndPassedAfter(pk)
              => CommitteeOf(pk).status' =
                     IF StatusBefore(pk) = "DEACTIVATED" THEN "DEACTIVATED" ELSE "COMPLETED"]_vars

\* An edit that left the dates alone saved an ACTIVE committee after its end
\* date, and the committee is COMPLETED.
C4_Witness ==
    /\ result = Report("committee_update", result.pk, "ok")
    /\ \E c \in committees :
           /\ c.pk = result.pk /\ c.status = "COMPLETED"
           /\ c.end_date = Some(AddMonths(c.start_date, c.duration_months))
           /\ c.start_date <= now /\ Val(c.end_date) < now

\* C5: once a committee's status is COMPLETED, no step changes it while the
\* committee exists.
C5_CompletedIsFinal ==
    [][\A pk \in CommitteePks :
          CommitteeOf(pk).status = "COMPLETED" /\ pk \in CommitteePks'
              => CommitteeOf(pk).status' = "COMPLETED"]_vars

\* A COMPLETED committee whose end date an update has moved into the future.
C5_Witness ==
    /\ result = Report("committee_update", result.pk, "ok")
    /\ \E c \in committees :
           c.pk = result.pk /\ c.status = "COMPLETED" /\ Val(c.end_date) > now

(* ------------------------------- C6 ------------------------------------ *)
\* The derivation table of the claim.
C6_Table(payment_date, due_date) ==
    IF payment_date = None THEN "PENDING"
    ELSE IF due_date /= None /\ Val(payment_date) > Val(due_date) THEN "LATE"
    ELSE "PAID"

\* C6: every stored contribution has the payment status that the table derives
\* from its payment date and its due date.
C6_StatusIsDerived ==
    \A c \in contributions : c.payment_status = C6_Table(c.payment_date, c.due_date)

\* One contribution paid on its due day and stored PAID, another paid after
\* its due day and stored LATE.
C6_Witness ==
    /\ \E c \in contributions :
           c.payment_status = "PAID" /\ c.payment_date = c.due_date
    /\ \E c \in contributions :
           c.payment_status = "LATE" /\ Val(c.payment_date) > Val(c.due_date)

(* ------------------------------- C7 ------------------------------------ *)
\* C7: a contribution that the member submits is stored PENDING, and a
\* PENDING contribution stays PENDING in every step that is not the
\* organizer's.
C7_MemberSubmissionPending ==
    [][/\ result' = Report("member_contribution_create", result'.pk, "ok")
           => \A c \in contributions' \ contributions : c.payment_status = "PENDING"
       /\ result'.op \in {"member_contribution_create", "tick"}
           => \A c \in contributions :
                  c.payment_status = "PENDING" => c \in contributions']_vars

(* ------------------------------- C8 ------------------------------------ *)
C8_OnePerMonth ==
    \A c, d \in contributions :
        (c.pk /= d.pk /\ c.membership = d.membership)
            => MonthOf(c.for_month) /= MonthOf(d.for_month)

MonthOnRecord(mpk, for_month, except_pk) ==
    \E c \in contributions :
        /\ c.membership = mpk /\ c.pk /= except_pk
        /\ MonthOf(c.for_month) = MonthOf(for_month)

\* A record stores rows only for months that were not on record, and an update
\* moves a row only to a month that no other row of the membership has; a
\* request refused as a duplicate changes nothing.
C8_DuplicatesRejected ==
    /\ result'.op \in {"contribution_create", "member_contribution_create",
                       "bulk_contribution", "contribution_update"}
           => \A c \in contributions' \ contributions :
                  ~MonthOnRecord(c.membership, c.for_month, c.pk)
    /\ result'.out = "duplicate" => contributions' = contributions
    /\ \A m \in MembershipPks :
           (/\ result'.op \in {"contribution_create", "member_contribution_create"}
            /\ result'.pk = m /\ result'.out /= "denied"
            /\ \A d \in ForMonthInputs : MonthOnRecord(m, d, 0))
               => result'.out = "duplicate"

\* C8: a membership never has two contributions for one calendar month, and a
\* record or an update that names a month the membership already has on record
\* is rejected and changes no contribution.
C8_MonthlyUniqueness == [](C8_OnePerMonth) /\ [][C8_DuplicatesRejected]_vars

\* The member's submission for a month that is on record was just rejected.
C8_Witness ==
    /\ result = Report("member_contribution_create", result.pk, "duplicate")
    /\ \E c \in contributions : c.membership = result.pk /\ c.verified_by_organizer

(* ---------------------------- C1 and C2 -------------------------------- *)
\* C1: in every state each stored payout's total_amount is at most the sum of
\* amount_paid over the PAID or LATE, organizer-verified contributions of its
\* membership.
C1_PayoutWithinVerified ==
    \A p \in payouts : p.total_amount <= VerifiedTotal(p.membership)

\* C2, first half: no membership has two payouts.
C2_AtMostOnePayout ==
    \A m \in MembershipPks : Cardinality({p \in payouts : p.membership = m}) <= 1

\* C2, second half: a payout create by the organizer for a membership that
\* has a payout is reported as a duplicate and leaves the payouts as they are.
C2_SecondCreateRejected ==
    \A m \in MembershipPks :
        (/\ result'.op = "payout_create" /\ result'.pk = m /\ result'.out /= "denied"
         /\ PayoutExists(m))
            => result'.out = "duplicate" /\ payouts' = payouts

\* C2: no membership ever has two payouts, and a payout create for a membership
\* that has one is rejected and leaves the payouts as they are.
C2_SinglePayout == [](C2_AtMostOnePayout) /\ [][C2_SecondCreateRejected]_vars

\* A second create that would have passed the amount test was just rejected.
C2_Witness ==
    /\ result = Report("payout_create", result.pk, "duplicate")
    /\ \E p \in payouts :
           p.membership = result.pk /\ p.total_amount < VerifiedTotal(p.membership)

(* ------------------------------- C3 ------------------------------------ *)
\* C3, first half: in every state at most one Membership row exists for each
\* (committee, member) pair.
C3_OneRowPerPair ==
    \A m, n \in memberships :
        (m.committee = n.committee /\ m.member = n.member) => m.pk = n.pk

\* C3, second half: membership_create leaves every stored row as it is and
\* adds no row for a pair that has one (whatever the status of that row); it
\* reports "already" only when the committee had a row.
C3_AddExistingRejected ==
    result'.op = "membership_create" =>
        /\ \A m \in memberships : m \in memberships'
        /\ \A n \in memberships' \ memberships :
               ~\E m \in memberships : m.committee = n.committee /\ m.member = n.member
        /\ result'.out = "already" => \E m \in memberships : m.committee = result'.pk

\* C3: at most one Membership row per (committee, member) pair, whatever mix
\* of membership_create, invitation_accept and signup produced the rows, and
\* membership_create for a pair that has a row creates none.
C3_OneMembershipPerPair == [](C3_OneRowPerPair) /\ [][C3_AddExistingRejected]_vars

\* An organizer's add was turned down for a user whose row is not ACTIVE, in a
\* state where an invitation has been accepted too.
C3_Witness ==
    /\ result.op = "membership_create"
    /\ result.out = "already"
    /\ \E m \in memberships : m.committee = result.pk /\ m.status /= "ACTIVE"
    /\ \E i \in invitations : i.status = "ACCEPTED"

(* ------------------------------- C9 ------------------------------------ *)
\* An ACCEPTED invitation is never changed; it goes only with its committee.
C9_AcceptedStays ==
    \A i \in invitations :
        i.status = "ACCEPTED" =>
            \/ i \in invitations'
            \/ /\ result'.op = "committee_delete"
               /\ result'.pk = i.committee
               /\ i.pk \notin InvitationPks'

\* An accept with the token of an ACCEPTED invitation reports that the
\* invitation is no longer valid and changes no membership and no invitation,
\* and no other invitation ever carries that token.
C9_SecondAcceptFails ==
    \A i \in invitations :
        i.status = "ACCEPTED" =>
            /\ \A j \in invitations' : j.token = i.token => j = i
            /\ (result'.op = "invitation_accept" /\ result'.pk = i.token) =>
                   /\ result'.out = "invalid"
                   /\ memberships' = memberships
                   /\ invitations' = invitations

\* C9: an invitation token is single-use: once the invitation is ACCEPTED,
\* every later accept with its token fails because the status is not PENDING,
\* creates or changes no membership and leaves the invitation ACCEPTED.
C9_TokenSingleUse == [][C9_AcceptedStays /\ C9_SecondAcceptFails]_vars

\* A second accept of an accepted token, after its first accept made a member.
C9_Witness ==
    /\ result.op = "invitation_accept"
    /\ result.out = "invalid"
    /\ \E i \in invitations :
           /\ i.token = result.pk
           /\ i.status = "ACCEPTED"
           /\ \E m \in memberships : m.committee = i.committee

(* ------------------------------- C10 ----------------------------------- *)
\* C10: an accept of a PENDING invitation at a time later than its expires_at
\* sets the invitation to EXPIRED, reports failure and changes no membership,
\* whoever the requesting user is (the invited user, another user, nobody).
C10_LateAcceptExpires ==
    [][\A i \in invitations :
           (/\ result'.op = "invitation_accept"
            /\ result'.pk = i.token
            /\ i.status = "PENDING"
            /\ i.expires_at /= None
            /\ now > Val(i.expires_at)) =>
               /\ result'.out = "expired"
               /\ invitations' = (invitations \ {i}) \cup {[i EXCEPT !.status = "EXPIRED"]}
               /\ memberships' = memberships
               /\ next_pk' = next_pk]_vars

\* An accept that came after the expiry of its invitation and expired it.
C10_Witness ==
    /\ result.op = "invitation_accept"
    /\ result.out = "expired"
    /\ \E i \in invitations :
           /\ i.token = result.pk
           /\ i.status = "EXPIRED"
           /\ Val(i.expires_at) < now
           /\ ~\E m \in memberships : m.committee = i.committee

(* ------------------------------- C11 ----------------------------------- *)
\* The accounts whose address an invitation names, letter case aside.
Invitees(i) == {u \in users : Lower(Email(u)) = Lower(i.email)}

\* C11: after a successful accept exactly one Membership row exists for
\* (invitation.committee, user) and it is ACTIVE, whatever row the pair had
\* before; the invitation is ACCEPTED with expires_at = now.
C11_AcceptLeavesActiveRow ==
    [][\A i \in invitations :
           (/\ result'.op = "invitation_accept"
            /\ result'.out = "ok"
            /\ result'.pk = i.token) =>
               /\ \A u \in Invitees(i) :
                      /\ Cardinality({m \in memberships' :
                                         m.committee = i.committee /\ m.member = u}) = 1
                      /\ \A m \in memberships' :
                             (m.committee = i.committee /\ m.member = u)
                                 => m.status = "ACTIVE"
               /\ InvitationOf(i.pk)'.status = "ACCEPTED"
               /\ InvitationOf(i.pk)'.expires_at = Some(now)]_vars

(* ------------------------- signup specification ------------------------ *)
\* Two committees: the one of u1, and one of u3 that started a month before
\* and ends today.  u1 and u3 have accounts; u2, whose address is written
\* with a capital, has none and may sign up.  No invitation is out yet.
OtherCommittee ==
    [pk |-> 2, organizer |-> "u3", status |-> "ACTIVE", monthly_amount |-> 1,
     duration_months |-> 1, start_date |-> LedgerStart - DaysPerMonth,
     end_date |-> Some(AddMonths(LedgerStart - DaysPerMonth, 1))]

InitSignup ==
    /\ now = LedgerStart
    /\ users = {"u1", "u3"}
    /\ is_organizer = [u \in Users |-> TRUE]
    /\ committees = {LedgerCommittee, OtherCommittee}
    /\ memberships = {}
    /\ contributions = {}
    /\ payouts = {}
    /\ invitations = {}
    /\ next_pk = [committee |-> 3, membership |-> 1, contribution |-> 1,
                  payout |-> 1, invitation |-> 1, token |-> 1]
    /\ result = Report("init", 0, "ok")
    /\ inflight = {}

NextSignup ==
    \/ InvitationSendAct
    \/ InvitationRevokeAct
    \/ SignupAct
    \/ ToggleAct

SpecSignup == InitSignup /\ [][NextSignup]_vars

(* ------------------------------- C12 ----------------------------------- *)
\* The PENDING invitations that name the address of u, letter case aside.
PendingFor(u) ==
    {i \in invitations : i.status = "PENDING" /\ i.email.n = Email(u).n}

\* C12: when a new user signs up with an address that matches PENDING
\* invitations, each of them becomes ACCEPTED with expires_at = now, the user
\* has one ACTIVE membership in each invited committee and is_organizer is
\* false; a signup that matches none keeps is_organizer true and creates no
\* membership.
C12_SignupAutoAccept ==
    [][result'.op = "save_user" =>
          \A u \in users' \ users :
              IF PendingFor(u) /= {}
              THEN /\ \A i \in PendingFor(u) :
                          InvitationOf(i.pk)' =
                              [i EXCEPT !.status = "ACCEPTED", !.expires_at = Some(now)]
                   /\ \A c \in {i.committee : i \in PendingFor(u)} :
                          /\ Cardinality({m \in memberships' :
                                             m.committee = c /\ m.member = u}) = 1
                          /\ \A m \in memberships' :
                                 (m.committee = c /\ m.member = u) => m.status = "ACTIVE"
                   /\ ~is_organizer'[u]
              ELSE /\ is_organizer'[u]
                   /\ memberships' = memberships
                   /\ invitations' = invitations]_vars

\* u2 ("Bob") signed up while two invitations to "bob", one for each
\* committee, were pending, and is now a member of both.
C12_Witness ==
    /\ result.op = "save_user"
    /\ result.out = "invited"
    /\ "u2" \in users
    /\ ~is_organizer["u2"]
    /\ Cardinality({m \in memberships : m.member = "u2" /\ m.status = "ACTIVE"}) = 2
    /\ Cardinality({i \in invitations :
                       i.status = "ACCEPTED" /\ i.email /= Email("u2")
                       /\ i.email.n = Email("u2").n}) = 2

(* ------------------------------- C13 ----------------------------------- *)
\* C13: in every state no Membership row has for member the organizer of its
\* committee.
C13_OrganizerIsNoMember ==
    \A m \in memberships : m.member /= OrganizerOfMembership(m)

(* ------------------------------- C14 ----------------------------------- *)
\* C14: a new Membership row is created only in a committee that is ACTIVE
\* and whose end date has not passed.
C14_JoinOnlyActiveCommittee ==
    [][\A m \in memberships' :
           m.pk \notin MembershipPks =>
               /\ CommitteeOf(m.committee).status = "ACTIVE"
               /\ ~is_completed(CommitteeOf(m.committee))]_vars

(* ------------------------------- C15 ----------------------------------- *)
\* The organizer changes the status of the membership while contributions
\* are recorded by the organizer, by the member and in bulk.
NextGate ==
    \/ MembershipUpdateAct
    \/ ContributionCreateAct
    \/ MemberContributionCreateAct
    \/ BulkContributionAct

SpecGate == InitLedger /\ [][NextGate]_vars

\* C15: a contribution is recorded only for a membership that is ACTIVE at
\* that time.
C15_RecordOnlyForActive ==
    [][\A c \in contributions' :
           c.pk \notin ContributionPks => MembershipOf(c.membership).status = "ACTIVE"]_vars

(* ------------------------------- C16 ----------------------------------- *)
\* The payout form, for every requester, membership, instance, amount and
\* receiver: an amount above the verified total is invalid, and an amount
\* within it is valid when the other tests of the form pass.
C16_FormBound ==
    \A u \in users, m \in memberships, t \in PayoutAmounts, r \in Users \cup {NoUser} :
        \A pk \in {0} \cup {p.pk : p \in {q \in payouts : q.membership = m.pk}} :
            /\ t > VerifiedTotal(m.pk) => ~PayoutFormValid(u, m, pk, t, r)
            /\ (/\ t <= VerifiedTotal(m.pk)
                /\ u = OrganizerOfMembership(m)
                /\ r = NoUser \/ r \in ActiveMembers(m.committee)
                /\ pk = 0 => ~PayoutExists(m.pk)) => PayoutFormValid(u, m, pk, t, r)

\* A payout create or update stores an amount only if it is within the
\* verified total as it is then, and a rejected one leaves the payouts alone.
C16_HandlersKeepBound ==
    result'.op \in {"payout_create", "payout_update"} =>
        IF result'.out = "ok"
        THEN \A p \in payouts' \ payouts :
                 p.total_amount <= VerifiedTotal(p.membership)
        ELSE payouts' = payouts

\* C16: payout create and payout update with total_amount above the verified
\* total (PAID or LATE, organizer-verified contributions of the membership,
\* read at that moment) are rejected and leave the stored payouts unchanged;
\* with total_amount within it the amount test passes.
C16_AmountBoundEnforced == [](C16_FormBound) /\ [][C16_HandlersKeepBound]_vars

\* An update has just stored the whole verified total, which is not zero.
C16_Witness ==
    /\ result.op = "payout_update"
    /\ result.out = "ok"
    /\ \E p \in payouts :
           /\ p.pk = result.pk
           /\ p.total_amount > 0
           /\ p.total_amount = VerifiedTotal(p.membership)


(* -------------------------------- C17 ---------------------------------- *)
\* The form refuses every posted amount other than the committee's
\* monthly_amount, below it or above it, for a new row and for a stored one.
C17_FormExact ==
    \A u \in users, m \in memberships, a \in LedgerAmounts, d \in ForMonthInputs :
        \A pk \in {0} \cup ContributionPks :
            a /= CommitteeOf(m.committee).monthly_amount
                => ~ContributionFormValid(u, m, pk, a, d)

\* A record by the organizer or by the member, or an update, stores only rows
\* whose amount_paid is the committee's monthly_amount, and a request refused
\* for its amount changes no contribution.
C17_HandlersStoreExact ==
    /\ result'.op \in {"contribution_create", "member_contribution_create",
                       "contribution_update"}
           => \A c \in contributions' \ contributions :
                  c.amount_paid =
                      CommitteeOf(MembershipOf(c.membership).committee).monthly_amount
    /\ result'.out = "amount" => contributions' = contributions

\* C17: recording a contribution (organizer or member) or updating one with an
\* amount_paid different from the committee's monthly_amount, lower or higher,
\* is rejected and stores or changes nothing.
C17_ExactAmount == [](C17_FormExact) /\ [][C17_HandlersStoreExact]_vars

\* An update of a stored, editable contribution was just refused for its amount.
C17_Witness ==
    /\ result.op = "contribution_update" /\ result.out = "amount"
    /\ \E c \in contributions : c.pk = result.pk /\ c.payment_status /= "PAID"


(* -------------------------------- C18 ---------------------------------- *)
\* A contribution that is verified stays verified for as long as it is stored.
C18_VerifiedStays ==
    \A c \in contributions :
        c.verified_by_organizer
            => \A d \in contributions' : d.pk = c.pk => d.verified_by_organizer

\* The organizer's verify of a contribution that is already verified is refused
\* and changes no contribution.
C18_SecondVerifyRefused ==
    /\ (/\ result'.op = "contribution_verify" /\ result'.out /= "denied"
        /\ \E c \in contributions : c.pk = result'.pk /\ c.verified_by_organizer)
           => result'.out = "already"
    /\ (result'.op = "contribution_verify" /\ result'.out = "already")
           => contributions' = contributions

\* C18: verification is one-way: a verify of an already verified contribution
\* is rejected and changes nothing, and no operation other than deleting the
\* contribution sets verified_by_organizer back to false.
C18_VerificationOneWay == [][C18_VerifiedStays /\ C18_SecondVerifyRefused]_vars

\* A verify of a verified contribution was just refused, and the row is kept.
C18_Witness ==
    /\ result.op = "contribution_verify" /\ result.out = "already"
    /\ \E c \in contributions : c.pk = result.pk /\ c.verified_by_organizer
    /\ \E c \in contributions : c.payment_status = "LATE" /\ c.verified_by_organizer


(* -------------------------------- C19 ---------------------------------- *)
\* C19: an update of a contribution whose stored payment_status is PAID is
\* rejected and leaves every field of every contribution as it was; an update
\* changes a contribution only if that contribution was not PAID.
C19_PaidIsFrozen ==
    [][result'.op = "contribution_update"
           => \A c \in contributions :
                  (c.pk = result'.pk /\ c.payment_status = "PAID")
                      => /\ contributions' = contributions
                         /\ result'.out \in {"denied", "frozen"}]_vars

\* The organizer's update of a stored paid contribution was just refused.
C19_Witness ==
    /\ result.op = "contribution_update" /\ result.out = "frozen"
    /\ \E c \in contributions : c.pk = result.pk /\ c.payment_status = "PAID"


(* -------------------------------- C20 ---------------------------------- *)
\* C20: a committee create with a monthly_amount or a duration_months that is
\* zero or negative stores no committee: every committee a create stores has
\* monthly_amount > 0 and duration_months > 0.
C20_CreateStoresPositive ==
    [][result'.op = "committee_create"
           => \A c \in committees' \ committees :
                  c.monthly_amount > 0 /\ c.duration_months > 0]_vars


(* -------------------------------- C21 ---------------------------------- *)
\* Every stored committee's end_date is its start_date plus duration_months
\* months.
C21_EndDateIsDerived ==
    \A c \in committees :
        c.end_date = Some(AddMonths(c.start_date, c.duration_months))

\* A step that changes neither start_date nor duration_months of a stored
\* committee leaves its end_date as it was.
C21_EndDateKept ==
    \A c \in committees : \A d \in committees' :
        (/\ d.pk = c.pk /\ d.start_date = c.start_date
         /\ d.duration_months = c.duration_months)
            => d.end_date = c.end_date

\* C21: a committee's end_date is set to start_date + duration_months months
\* when it is unset, is kept by every save that changes neither of the two, and
\* is recomputed from the new values when an update changes either; in every
\* state end_date = start_date + duration_months months.
C21_EndDateFollows == [](C21_EndDateIsDerived) /\ [][C21_EndDateKept]_vars

\* An update has moved the end date of a completed committee: the committee is
\* COMPLETED, which needs an end date before today, and its end date is today
\* or later.
C21_Witness ==
    /\ result.op = "committee_update" /\ result.out = "ok"
    /\ \E c \in committees :
           /\ c.pk = result.pk /\ c.status = "COMPLETED"
           /\ Val(c.end_date) >= now


(* -------------------------------- C22 ---------------------------------- *)
\* deactivate on a stored committee: true and DEACTIVATED exactly from ACTIVE
\* with an end date that has not passed, otherwise false and no change.
C22_Deactivate ==
    \A c \in committees :
        LET open == c.status = "ACTIVE" /\ Val(c.end_date) >= now
            r == deactivate(c)
        IN /\ r[2] <=> open
           /\ r[1] = IF open THEN [c EXCEPT !.status = "DEACTIVATED"] ELSE c

\* reactivate on a stored committee: true and ACTIVE exactly from DEACTIVATED
\* with an end date that has not passed, otherwise false and no change.
C22_Reactivate ==
    \A c \in committees :
        LET open == c.status = "DEACTIVATED" /\ Val(c.end_date) >= now
            r == reactivate(c)
        IN /\ r[2] <=> open
           /\ r[1] = IF open THEN [c EXCEPT !.status = "ACTIVE"] ELSE c

\* C22: deactivate changes the status to DEACTIVATED and returns true exactly
\* when the committee was ACTIVE and its end date has not passed; reactivate
\* changes it to ACTIVE and returns true exactly when the committee was
\* DEACTIVATED and its end date has not passed; otherwise they return false
\* and leave the committee unchanged.
C22_ToggleMethods == C22_Deactivate /\ C22_Reactivate

\* The organizer's toggle of a deactivated committee whose end date has passed
\* was just refused by reactivate.
C22_Witness ==
    /\ result.op = "toggle_committee_status" /\ result.out = "refused"
    /\ \E c \in committees :
           c.pk = result.pk /\ c.status = "DEACTIVATED" /\ Val(c.end_date) < now


(* -------------------------------- C23 ---------------------------------- *)
\* The change of one invitation from i to j is one the state machine allows,
\* made by an operation that may make it.
C23_Allowed(i, j) ==
    \/ j = i
    \/ /\ i.status = "PENDING" /\ j.status = "ACCEPTED"
       /\ result'.op \in {"invitation_accept", "save_user"}
       /\ j.token = i.token
    \/ /\ i.status = "PENDING" /\ j.status = "EXPIRED"
       /\ result'.op \in {"invitation_revoke", "invitation_accept"}
       /\ j.token = i.token
    \/ /\ i.status \in {"EXPIRED", "PENDING"} /\ j.status = "PENDING"
       /\ result'.op = "invitation_resend"
       /\ j.token /= i.token
       /\ j.expires_at = Some(now + InviteDays)

\* C23: an invitation's status changes only from PENDING to ACCEPTED (accept or
\* signup), from PENDING to EXPIRED (revoke, or the expiry found at accept) and
\* from EXPIRED or PENDING to PENDING (resend, with a new token and an expiry
\* seven days ahead); a revoke of an invitation that is not PENDING and a
\* resend of an ACCEPTED one change nothing, so ACCEPTED is final and an
\* EXPIRED invitation is accepted only after a resend.
C23_InvitationLifecycle ==
    [][\A i \in invitations : \A j \in invitations' :
           j.pk = i.pk
               => /\ C23_Allowed(i, j)
                  /\ i.status = "ACCEPTED" => j = i
                  /\ (result'.op = "invitation_revoke" /\ result'.pk = i.pk
                      /\ i.status /= "PENDING") => j = i]_vars

\* The organizer's resend of an accepted invitation was just refused.
C23_Witness ==
    /\ result.op = "invitation_resend" /\ result.out = "refused"
    /\ \E i \in invitations : i.pk = result.pk /\ i.status = "ACCEPTED"


(* -------------------------------- C24 ---------------------------------- *)
C24_Frame == UNCHANGED <<committees, memberships, contributions, payouts, invitations>>

\* The handlers addressed by a committee, posted by u who is not its organizer.
C24_CommitteeOps(u) ==
    \A pk \in CommitteePks :
        CommitteeOf(pk).organizer /= u
            => /\ \A a \in AmountInputs, d \in DurationInputs, s \in StartInputs :
                      committee_update(u, pk, a, d, s) => C24_Frame
               /\ committee_delete(u, pk) => C24_Frame
               /\ toggle_committee_status(u, pk) => C24_Frame
               /\ \A ids \in SUBSET Users : membership_create(u, pk, ids) => C24_Frame
               /\ \A e \in EmailInputs : invitation_send(u, pk, e) => C24_Frame

\* The handlers addressed by a membership.
C24_MembershipOps(u) ==
    \A m \in memberships :
        OrganizerOfMembership(m) /= u
            => /\ \A st \in StatusInputs : membership_update(u, m.pk, st) => C24_Frame
               /\ membership_delete(u, m.pk) => C24_Frame
               /\ \A a \in LedgerAmounts, d \in ForMonthInputs :
                      contribution_create(u, m.pk, a, d) => C24_Frame
               /\ \A t \in PayoutAmounts, r \in Users \cup {NoUser}, f \in BOOLEAN :
                      payout_create(u, m.pk, t, r, f) => C24_Frame

\* The handlers addressed by a contribution, a payout or an invitation.
C24_RowOps(u) ==
    /\ \A c \in contributions :
           OrganizerOfMembership(MembershipOf(c.membership)) /= u
               => /\ \A a \in LedgerAmounts, d \in ForMonthInputs :
                         contribution_update(u, c.pk, a, d) => C24_Frame
                  /\ contribution_delete(u, c.pk) => C24_Frame
                  /\ contribution_verify(u, c.pk) => C24_Frame
    /\ \A p \in payouts :
           OrganizerOfMembership(MembershipOf(p.membership)) /= u
               => /\ \A t \in PayoutAmounts, r \in Users \cup {NoUser}, f \in BOOLEAN :
                         payout_update(u, p.pk, t, r, f) => C24_Frame
                  /\ payout_delete(u, p.pk) => C24_Frame
    /\ \A i \in invitations :
           CommitteeOf(i.committee).organizer /= u
               => /\ invitation_resend(u, i.pk) => C24_Frame
                  /\ invitation_revoke(u, i.pk) => C24_Frame

\* C24: when the user who posts an organizer-only operation (committee update,
\* delete, toggle; membership add, status change, delete; contribution record,
\* update, delete, verify; payout create, update, delete; invitation issue,
\* resend, revoke) is not the organizer of the committee concerned, no stored
\* committee, membership, contribution, payout or invitation changes.
C24_OrganizerOnly ==
    [][\A u \in users : C24_CommitteeOps(u) /\ C24_MembershipOps(u) /\ C24_RowOps(u)]_vars

\* A user who holds the organizer flag but is not this committee's organizer
\* was just refused the deletion of a stored payout.
C24_Witness ==
    /\ result.op = "payout_delete" /\ result.out = "denied"
    /\ result.pk \in PayoutPks
    /\ is_organizer["u2"]
    /\ invitations /= {} /\ contributions /= {}


(* -------------------------------- C25 ---------------------------------- *)
\* C25: a record by the organizer stores one contribution with payment_date =
\* today, due_date = the 5th of for_month's month, payment_status LATE if today
\* is later than that due date and PAID otherwise, and verified_by_organizer
\* true.
C25_OrganizerRecord ==
    [][(result'.op = "contribution_create" /\ result'.out = "ok")
           => /\ Cardinality(contributions' \ contributions) = 1
              /\ \A c \in contributions' \ contributions :
                     LET due == DateOf(MonthOf(c.for_month), DueDay)
                     IN /\ c.membership = result'.pk
                        /\ c.payment_date = Some(now)
                        /\ c.due_date = Some(due)
                        /\ c.payment_status = IF now > due THEN "LATE" ELSE "PAID"
                        /\ c.verified_by_organizer]_vars

\* The organizer has just recorded a contribution for a month whose due date
\* has passed: it is stored LATE, paid today and verified.
C25_Witness ==
    /\ result.op = "contribution_create" /\ result.out = "ok"
    /\ \E c \in contributions :
           /\ c.membership = result.pk /\ c.payment_date = Some(now)
           /\ c.payment_status = "LATE" /\ c.verified_by_organizer
           /\ Val(c.due_date) < now


(* -------------------------------- C26 ---------------------------------- *)
\* C26: a contribution that the organizer records without a payment date is
\* stored as PENDING (and becomes LATE when the organizer later sets a payment
\* date after the due date).  The form of the record carries no payment date,
\* so this is every record by the organizer.
C26_RecordWithoutDateIsPending ==
    [][(result'.op = "contribution_create" /\ result'.out = "ok")
           => \A c \in contributions' \ contributions :
                  c.payment_status = "PENDING" /\ c.payment_date = None]_vars


(* -------------------------------- C27 ---------------------------------- *)
\* The number of payouts created so far: the keys are handed out in order.
\* The ledger has one membership and gains no other, so this is the number of
\* payouts ever created for that membership.
C27_CreatedSoFar == next_pk.payout - 1

\* C27: at most one payout is ever created for a membership: once a payout
\* create for it has succeeded no later payout create for it succeeds, also
\* after the first payout has been deleted.
C27_OnePayoutEver ==
    [][(result'.op = "payout_create" /\ result'.out = "ok") => C27_CreatedSoFar = 0]_vars


(* -------------------------------- C28 ---------------------------------- *)
\* C28: a contribution that a member submits for themself is stored with
\* verified_by_organizer = false, whatever the member's own is_organizer flag,
\* so it does not count toward the verified total until the committee's
\* organizer verifies it.
C28_MemberSubmissionUnverified ==
    [][(result'.op = "member_contribution_create" /\ result'.out = "ok")
           => \A c \in contributions' \ contributions : ~c.verified_by_organizer]_vars


(* -------------------------------- C29 ---------------------------------- *)
\* A membership has no left_at exactly when it is ACTIVE.
C29_LeftAtIffNotActive ==
    \A m \in memberships : (m.left_at = None) <=> (m.status = "ACTIVE")

\* A change of status into LEFT or REMOVED stamps left_at with the current
\* time; a change into ACTIVE clears it.
C29_StampedOnChange ==
    \A m \in memberships : \A n \in memberships' :
        (n.pk = m.pk /\ n.status /= m.status)
            => n.left_at = IF n.status = "ACTIVE" THEN None ELSE Some(now)

\* C29: in every state a membership has left_at = null exactly when its status
\* is ACTIVE: a status change into LEFT or REMOVED sets left_at to the current
\* time, and a change back to ACTIVE clears it.
C29_LeftAtFollowsStatus == [](C29_LeftAtIffNotActive) /\ [][C29_StampedOnChange]_vars

\* A status change on a later day has just stamped the membership with that
\* day, next to a membership that is ACTIVE.
C29_Witness ==
    /\ result.op = "membership_update" /\ result.out = "ok"
    /\ now > LedgerStart
    /\ \E m \in memberships :
           m.pk = result.pk /\ m.status = "REMOVED" /\ m.left_at = Some(now)
    /\ \E m \in memberships : m.status = "ACTIVE" /\ m.left_at = None


(* -------------------------------- C30 ---------------------------------- *)
\* A payout is created with paid_at = now; a stored payout keeps its paid_at,
\* and keeps its confirmed_at once that is set.
C30_DatesKept ==
    /\ \A q \in payouts' :
           (~\E p \in payouts : p.pk = q.pk) => q.paid_at = now
    /\ \A p \in payouts : \A q \in payouts' :
           q.pk = p.pk
               => /\ q.paid_at = p.paid_at
                  /\ p.confirmed_at /= None => q.confirmed_at = p.confirmed_at

C31_StaysConfirmed ==
    \A p \in payouts : \A q \in payouts' :
        (q.pk = p.pk /\ p.is_confirmed) => q.is_confirmed

\* A payout is confirmed exactly when it carries a confirmed_at.
C31_ConfirmedIffStamped ==
    \A p \in payouts : p.is_confirmed <=> (p.confirmed_at /= None)

\* C31: a payout's confirmation only moves forward: once is_confirmed is true,
\* as it is after every create, no update sets it back to false, so
\* is_confirmed holds exactly when confirmed_at is set.
C31_ConfirmationForward == [](C31_ConfirmedIffStamped) /\ [][C31_StaysConfirmed]_vars


(* -------------------------------- C32 ---------------------------------- *)
\* Every row references a stored owner.
C32_OwnersExist ==
    /\ \A m \in memberships : m.committee \in CommitteePks
    /\ \A c \in contributions : c.membership \in MembershipPks
    /\ \A p \in payouts : p.membership \in MembershipPks
    /\ \A i \in invitations : i.committee \in CommitteePks

\* After a successful delete nothing that the deleted row owned remains.
C32_NothingLeft ==
    /\ (result'.op = "committee_delete" /\ result'.out = "ok")
           => /\ result'.pk \notin {c.pk : c \in committees'}
              /\ \A m \in memberships :
                     m.committee = result'.pk
                         => /\ m \notin memberships'
                            /\ \A c \in contributions' : c.membership /= m.pk
                            /\ \A p \in payouts' : p.membership /= m.pk
              /\ \A i \in invitations' : i.committee /= result'.pk
    /\ (result'.op = "membership_delete" /\ result'.out = "ok")
           => /\ result'.pk \notin {m.pk : m \in memberships'}
              /\ \A c \in contributions' : c.membership /= result'.pk
              /\ \A p \in payouts' : p.membership /= result'.pk

\* C32: deletion cascades along ownership: after a committee is deleted none of
\* its memberships, contributions, payouts or invitations remains, and after a
\* membership is deleted none of its contributions or payouts remains; in every
\* state each contribution and payout references a stored membership and each
\* membership a stored committee.
C32_DeletionCascades == [](C32_OwnersExist) /\ [][C32_NothingLeft]_vars

\* A committee that had a member, a contribution, a payout and an invitation
\* was just deleted, and nothing is left.
C32_Witness ==
    /\ result.op = "committee_delete" /\ result.out = "ok"
    /\ next_pk.contribution > 1 /\ next_pk.payout > 1 /\ next_pk.invitation > 1
    /\ committees = {} /\ memberships = {} /\ contributions = {}
    /\ payouts = {} /\ invitations = {}


(* -------------------------------- C33 ---------------------------------- *)
\* C33: two overlapping record requests (of the organizer, of the member, or
\* of both) for one membership and one calendar month, on any days of that
\* month and in any order of their checks and writes, never leave two stored
\* contributions of the membership for that month.
C33_NoTwoForMonth ==
    \A c, d \in contributions :
        (c.pk /= d.pk /\ c.membership = d.membership)
            => MonthOf(c.for_month) /= MonthOf(d.for_month)


(* -------------------------------- C34 ---------------------------------- *)
\* No membership has two stored payouts.
C34_OnePayoutStored ==
    \A p, q \in payouts : p.membership = q.membership => p.pk = q.pk

\* The write of a payout create for a membership that has a payout by then
\* reports an error and stores nothing.
C34_LoserStoresNothing ==
    \A r \in inflight :
        (/\ r \notin inflight' /\ r.op = "payout_create"
         /\ PayoutExists(r.target))
            => /\ result' = Report("payout_create", r.target, "error")
               /\ payouts' = payouts

\* C34: two overlapping payout create requests for one membership, in any
\* order of their existence checks and writes, leave at most one stored
\* payout; the request that loses reports an error and stores nothing.
C34_PayoutRace == [](C34_OnePayoutStored) /\ [][C34_LoserStoresNothing]_vars

\* Both requests passed the existence check; one stored the payout and the
\* other was just refused at its write.
C34_Witness ==
    /\ result.op = "payout_create" /\ result.out = "error"
    /\ inflight = {}
    /\ next_pk.payout = 2
    /\ \E p \in payouts : p.membership = result.pk


(* -------------------------------- C35 ---------------------------------- *)
\* No (committee, user) pair has two membership rows.
C35_OneRowPerPair ==
    \A m, x \in memberships :
        (m.committee = x.committee /\ m.member = x.member) => m.pk = x.pk

\* The rows of the pair an invitation was accepted for.
C35_RowsFor(i, u) == {m \in memberships : m.committee = i.committee /\ m.member = u}

\* An accepted invitation has a member: the row is stored before the status.
C35_AcceptedHasMember ==
    \A i \in invitations :
        i.status = "ACCEPTED" => \E m \in memberships : m.committee = i.committee

\* An accept that passed its tests and completes leaves the invitation
\* ACCEPTED and exactly one membership row for its pair.
C35_AcceptCompletes ==
    \A r \in inflight :
        (r.op = "invitation_accept_save" /\ r \notin inflight')
            => LET i == CHOOSE j \in invitations' : j.pk = r.target
               IN /\ i.status = "ACCEPTED"
                  /\ Cardinality({m \in memberships' :
                         m.committee = i.committee /\ m.member = r.u}) = 1

\* Once every request is done, an invitation that an accept went through is
\* ACCEPTED with exactly one row for the pair.
C35_AtRest ==
    (inflight = {} /\ result.op = "invitation_accept" /\ result.out = "ok")
        => \E i \in invitations :
               /\ i.token = result.pk
               /\ i.status = "ACCEPTED"
               /\ \E u \in users : Cardinality(C35_RowsFor(i, u)) = 1
                                   /\ Lower(Email(u)) = Lower(i.email)

C35_WitnessAdd ==
    /\ result.op = "membership_create" /\ result.out = "error"
    /\ Cardinality(memberships) = 1


(* -------------------------------- C36 ---------------------------------- *)
\* C36: each stored contribution's amount_paid equals the current
\* monthly_amount of its committee, also after the organizer edits the
\* committee.
C36_AmountIsMonthly ==
    \A c \in contributions :
        c.amount_paid = CommitteeOf(MembershipOf(c.membership).committee).monthly_amount


(* -------------------------------- C37 ---------------------------------- *)
\* C37: each stored contribution's due_date is the 5th day of the month of
\* its for_month, also after an update that moves a contribution that is not
\* PAID to another month.
C37_DueDateFollowsMonth ==
    \A c \in contributions :
        c.due_date = Some(DateOf(MonthOf(c.for_month), DueDay))


(* -------------------------------- C38 ---------------------------------- *)
\* C38: an invitation whose expires_at is earlier than the current time does
\* not become ACCEPTED and brings no membership, by an accept of its token or
\* by the signup of its addressee, also while it is still stored as PENDING.
C38_NoJoinPastExpiry ==
    [][\A i \in invitations :
          (PastExpiry(i) /\ i.status /= "ACCEPTED")
              => /\ \A j \in invitations' : j.pk = i.pk => j.status /= "ACCEPTED"
                 /\ \A m \in memberships' \ memberships :
                        m.committee = i.committee
                            => Lower(Email(m.member)) /= Lower(i.email)]_vars


(* -------------------------------- C39 ---------------------------------- *)
\* The tokens given out so far that no stored invitation carries.
C39_RetiredTokens == {t \in 1..(next_pk.token - 1) : ~HasToken(t)}

\* A resend that goes through leaves no invitation with the token the
\* invitation had before.
C39_ResendRetiresToken ==
    \A i \in invitations :
        (result' = Report("invitation_resend", i.pk, "ok") /\ invitations' /= invitations)
            => /\ \A j \in invitations' : j.token /= i.token
               /\ i.token \in C39_RetiredTokens'

\* An accept with a retired token finds nothing and changes nothing.
C39_RetiredTokenDead ==
    \A t \in C39_RetiredTokens :
        (result'.op = "invitation_accept" /\ result'.pk = t)
            => /\ result'.out = "notfound"
               /\ memberships' = memberships
               /\ invitations' = invitations

\* An accept that goes through names the token its invitation carries now.
C39_AcceptedByCurrentToken ==
    (result'.op = "invitation_accept" /\ result'.out = "ok" /\ result' /= result)
        => \E i \in invitations : i.token = result'.pk /\ i.status = "PENDING"

\* C39: after a resend has rotated an invitation's token, the previous token
\* identifies no invitation: an accept with it creates no membership and
\* changes no invitation, and only the new token can be accepted.
C39_OldTokenDead ==
    [][C39_ResendRetiresToken /\ C39_RetiredTokenDead /\ C39_AcceptedByCurrentToken]_vars

\* The invitation was resent and carries the second token; an accept with the
\* first token has just been answered.
C39_Witness ==
    /\ result = Report("invitation_accept", 1, "notfound")
    /\ \E i \in invitations : i.pk = 1 /\ i.token = 2 /\ i.status = "PENDING"
    /\ memberships = {}


(* -------------------------------- C40 ---------------------------------- *)
\* C40: each user who is the organizer of at least one committee has
\* is_organizer true.
C40_OrganizersAreFlagged ==
    \A c \in committees : c.organizer \in users /\ is_organizer[c.organizer]

\* A step down has been refused because of the committees of the user (every
\* user holds the flag, so the refusal is not the one for a non-organizer).
C40_Witness ==
    /\ result = Report("step_down_organizer", 0, "refused")
    /\ committees /= {}
    /\ \A u \in users : is_organizer[u]

\* An invited user has signed up without the flag while a committee exists.
C40_WitnessSignup ==
    /\ result = Report("save_user", 0, "invited")
    /\ committees /= {}
    /\ ~is_organizer["u3"]
====
